---- MODULE Spec2Model ----
(***************************************************************************)
(* Netlist ingestion of backend/netlist_parser.py: parse_d356 (graph       *)
(* format) and parse_ipc (flat format), read line by line.                 *)
(*                                                                         *)
(* Text is a sequence of one-character strings.  A Python dict is a        *)
(* sequence of entries in insertion order.  An optional value (None or a   *)
(* value) is a sequence of length 0 or 1.                                  *)
(***************************************************************************)
EXTENDS Integers, Sequences, FiniteSets, TLC

(***************************************************************************)
(* Characters and the character classes of Python's re module.             *)
(***************************************************************************)
Digit == {"0", "1", "2", "3", "4", "5", "6", "7", "8", "9"}
Upper == {"A", "B", "C", "D", "E", "F", "G", "H", "I", "J", "K", "L", "M",
          "N", "O", "P", "Q", "R", "S", "T", "U", "V", "W", "X", "Y", "Z"}
Lower == {"a", "b", "c", "d", "e", "f", "g", "h", "i", "j", "k", "l", "m",
          "n", "o", "p", "q", "r", "s", "t", "u", "v", "w", "x", "y", "z"}
Punct == {"+", "-", "/", "#"}
Space == {" ", "\t"}
Alphabet == Digit \cup Upper \cup Lower \cup Punct \cup Space
NonSpace == Alphabet \ Space
AnyChar == Alphabet
AlNum == Digit \cup Upper \cup Lower
Sign == {"+", "-"}

Some(v) == <<v>>
None == <<>>

Max(S) == CHOOSE x \in S : \A y \in S : y <= x
Min(S) == CHOOSE x \in S : \A y \in S : x <= y

(***************************************************************************)
(* Regular expressions: a pattern is a sequence of elements, each a        *)
(* character class with a repetition (exactly one, ?, +, *, *?) or the     *)
(* end anchor $.                                                           *)
(***************************************************************************)
Lit(c) == [cs |-> {c}, min |-> 1, many |-> FALSE, greedy |-> TRUE, eol |-> FALSE]
Opt(cs) == [cs |-> cs, min |-> 0, many |-> FALSE, greedy |-> TRUE, eol |-> FALSE]
Plus(cs) == [cs |-> cs, min |-> 1, many |-> TRUE, greedy |-> TRUE, eol |-> FALSE]
Star(cs) == [cs |-> cs, min |-> 0, many |-> TRUE, greedy |-> TRUE, eol |-> FALSE]
LazyStar(cs) == [cs |-> cs, min |-> 0, many |-> TRUE, greedy |-> FALSE, eol |-> FALSE]
EndAnchor == [cs |-> {}, min |-> 0, many |-> FALSE, greedy |-> TRUE, eol |-> TRUE]

\* The positions at which element el can end when it starts at pos
\* (pos - 1 is the empty repetition).
ElemEnds(el, s, pos) ==
    IF el.eol
    THEN IF pos = Len(s) + 1 THEN {pos - 1} ELSE {}
    ELSE LET last == IF el.many \/ pos > Len(s) THEN Len(s) ELSE pos
         IN {e \in (pos - 1 + el.min)..last : \A j \in pos..e : s[j] \in el.cs}

\* Backtracking match of elements k.. of pat at position pos of s: a greedy
\* element takes the longest repetition for which the rest matches, a lazy
\* one the shortest.  None, or Some(the end position of each element).
RECURSIVE MatchAt(_, _, _, _)
MatchAt(pat, s, k, pos) ==
    IF k > Len(pat)
    THEN Some(<<>>)
    ELSE LET el == pat[k]
             tries == {<<e, MatchAt(pat, s, k + 1, e + 1)>> : e \in ElemEnds(el, s, pos)}
             ok == {t \in tries : t[2] # None}
         IN IF ok = {}
            THEN None
            ELSE LET ends == {t[1] : t \in ok}
                     e == IF el.greedy THEN Max(ends) ELSE Min(ends)
                     t == CHOOSE u \in ok : u[1] = e
                 IN Some(<<e>> \o t[2][1])

\* re.match: the pattern at the start of s.  A match is the start position
\* followed by the end position of each element.
ReMatch(pat, s) ==
    LET m == MatchAt(pat, s, 1, 1)
    IN IF m = None THEN None ELSE Some([start |-> 1, ends |-> m[1]])

\* re.search: the pattern at the leftmost position where it matches.
ReSearch(pat, s) ==
    LET starts == {i \in 1..(Len(s) + 1) : MatchAt(pat, s, 1, i) # None}
    IN IF starts = {}
       THEN None
       ELSE LET i == Min(starts)
            IN Some([start |-> i, ends |-> MatchAt(pat, s, 1, i)[1]])

\* The text matched by elements k1..k2 of a match m of s.
Group(s, m, k1, k2) ==
    LET from == IF k1 = 1 THEN m.start ELSE m.ends[k1 - 1] + 1
    IN SubSeq(s, from, m.ends[k2])

(***************************************************************************)
(* str.strip, str.startswith, int.                                         *)
(***************************************************************************)
Strip(s) ==
    LET keep == {i \in 1..Len(s) : s[i] \notin Space}
    IN IF keep = {} THEN <<>> ELSE SubSeq(s, Min(keep), Max(keep))

StartsWith(s, p) == Len(s) >= Len(p) /\ SubSeq(s, 1, Len(p)) = p

DigitVal == [c \in Digit |->
    CASE c = "0" -> 0 [] c = "1" -> 1 [] c = "2" -> 2 [] c = "3" -> 3
      [] c = "4" -> 4 [] c = "5" -> 5 [] c = "6" -> 6 [] c = "7" -> 7
      [] c = "8" -> 8 [] c = "9" -> 9]

RECURSIVE DigitsVal(_)
DigitsVal(ds) ==
    IF ds = <<>> THEN 0
    ELSE 10 * DigitsVal(SubSeq(ds, 1, Len(ds) - 1)) + DigitVal[ds[Len(ds)]]

\* int(text) for an optionally signed decimal literal.
ToInt(t) ==
    IF t[1] = "-" THEN 0 - DigitsVal(Tail(t))
    ELSE IF t[1] = "+" THEN DigitsVal(Tail(t))
    ELSE DigitsVal(t)

(***************************************************************************)
(* Python dicts, in insertion order.                                       *)
(***************************************************************************)
DictHas(d, k) == \E i \in 1..Len(d) : d[i].key = k
DictIdx(d, k) == CHOOSE i \in 1..Len(d) : d[i].key = k
DictGet(d, k) == d[DictIdx(d, k)]
DictKeys(d) == {d[i].key : i \in 1..Len(d)}

\* Variant of SetMetadata: the first value of a key is kept.
SetMetadata_FirstWins(md, key, value) ==
    IF DictHas(md, key)
    THEN md
    ELSE Append(md, [key |-> key, value |-> value])

\* metadata[key] = value
SetMetadata(md, key, value) ==
    IF DictHas(md, key)
    THEN [md EXCEPT ![DictIdx(md, key)].value = value]
    ELSE Append(md, [key |-> key, value |-> value])

\* Variants of AppendPin: a component is created only for a pin with
\* geometry; a pin equal to one already stored is not stored again.
AppendPin_GeomOnly(comps, comp, pin_info) ==
    IF pin_info.x = None
    THEN comps
    ELSE IF DictHas(comps, comp)
    THEN [comps EXCEPT ![DictIdx(comps, comp)].pins = Append(@, pin_info)]
    ELSE Append(comps, [key |-> comp, pins |-> <<pin_info>>])

AppendPin_Dedup(comps, comp, pin_info) ==
    IF DictHas(comps, comp)
    THEN IF \E j \in 1..Len(DictGet(comps, comp).pins) :
                DictGet(comps, comp).pins[j] = pin_info
         THEN comps
         ELSE [comps EXCEPT ![DictIdx(comps, comp)].pins = Append(@, pin_info)]
    ELSE Append(comps, [key |-> comp, pins |-> <<pin_info>>])

\* components[comp]["pins"].append(pin_info), components being a
\* defaultdict(lambda: {"pins": []})
AppendPin(comps, comp, pin_info) ==
    IF DictHas(comps, comp)
    THEN [comps EXCEPT ![DictIdx(comps, comp)].pins = Append(@, pin_info)]
    ELSE Append(comps, [key |-> comp, pins |-> <<pin_info>>])

\* Variant of AddConnection: the name a net was first given is kept.
AddConnection_KeepName(ns, net_id, net_name, comp) ==
    IF DictHas(ns, net_id)
    THEN [ns EXCEPT ![DictIdx(ns, net_id)].connections = Append(@, comp)]
    ELSE Append(ns, [key |-> net_id, name |-> net_name, connections |-> <<comp>>])

\* Variant of AddConnection: a component already connected to the net is
\* not listed again.
AddConnection_Dedup(ns, net_id, net_name, comp) ==
    IF DictHas(ns, net_id)
    THEN [ns EXCEPT ![DictIdx(ns, net_id)] =
              [@ EXCEPT !.name = net_name,
                        !.connections =
                            IF \E j \in 1..Len(@) : @[j] = comp
                            THEN @ ELSE Append(@, comp)]]
    ELSE Append(ns, [key |-> net_id, name |-> net_name, connections |-> <<comp>>])

\* nets[net_id]["name"] = net_name; nets[net_id]["connections"].append(comp),
\* nets being a defaultdict(lambda: {"connections": []})
AddConnection(ns, net_id, net_name, comp) ==
    IF DictHas(ns, net_id)
    THEN [ns EXCEPT ![DictIdx(ns, net_id)] =
              [@ EXCEPT !.name = net_name, !.connections = Append(@, comp)]]
    ELSE Append(ns, [key |-> net_id, name |-> net_name, connections |-> <<comp>>])

(***************************************************************************)
(* The patterns of parse_d356 and parse_ipc.                               *)
(***************************************************************************)
\* ^P\s+(\S+)\s+(.+)$
prop_pattern ==
    <<Lit("P"), Plus(Space), Plus(NonSpace), Plus(Space), Plus(AnyChar), EndAnchor>>

\* Variant of netline_pattern: the net name is [A-Za-z]*.
netline_pattern_Alpha ==
    <<Plus(Digit), Star(Upper \cup Lower), Plus(Space), Plus(NonSpace), Plus(Space),
      Plus(AnyChar), EndAnchor>>

\* ^(?P<netid>\d+)(?P<netname>\S*)\s+(?P<comp>\S+)\s+(?P<geom>.+)$
netline_pattern ==
    <<Plus(Digit), Star(NonSpace), Plus(Space), Plus(NonSpace), Plus(Space),
      Plus(AnyChar), EndAnchor>>

\* Variants of geom_pattern: S(?P<sid>\S+), and greedy .* for the gaps.
geom_pattern_AnyToken ==
    <<Lit("X"), Opt(Sign), Plus(Digit), Lit("Y"), Opt(Sign), Plus(Digit),
      LazyStar(AnyChar), Lit("R"), Plus(Digit), LazyStar(AnyChar), Lit("S"),
      Plus(NonSpace)>>

geom_pattern_Greedy ==
    <<Lit("X"), Opt(Sign), Plus(Digit), Lit("Y"), Opt(Sign), Plus(Digit),
      Star(AnyChar), Lit("R"), Plus(Digit), Star(AnyChar), Lit("S"),
      Plus(Digit)>>

\* X(?P<x>[+-]?\d+)Y(?P<y>[+-]?\d+).*?R(?P<rot>\d+).*?S(?P<sid>\d+)
geom_pattern ==
    <<Lit("X"), Opt(Sign), Plus(Digit), Lit("Y"), Opt(Sign), Plus(Digit),
      LazyStar(AnyChar), Lit("R"), Plus(Digit), LazyStar(AnyChar), Lit("S"),
      Plus(Digit)>>

\* Variant of pattern: the text before R is matched lazily (.*?).
pattern_FirstR ==
    <<Plus(NonSpace), Plus(Space), Plus(AlNum), Plus(Space), Opt({"-"}), Plus(Digit),
      Plus(Space), Lit("P"), Lit("A"), Plus(Digit), Lit("X"), Star(Space), Plus(Digit),
      Lit("Y"), Star(Space), Plus(Digit), LazyStar(AnyChar), Lit("R"), Plus(Digit),
      Plus(Space), Lit("S"), Plus(Digit)>>

\* (?P<net>\S+)\s+(?P<comp>[A-Za-z0-9]+)\s+(?P<pin>-?\d+)\s+
\* PA\d+X\s*(?P<x>\d+)Y\s*(?P<y>\d+).*R(?P<rot>\d+)\s+S(?P<side>\d+)
pattern ==
    <<Plus(NonSpace), Plus(Space), Plus(AlNum), Plus(Space), Opt({"-"}),
      Plus(Digit), Plus(Space), Lit("P"), Lit("A"), Plus(Digit), Lit("X"),
      Star(Space), Plus(Digit), Lit("Y"), Star(Space), Plus(Digit),
      Star(AnyChar), Lit("R"), Plus(Digit), Plus(Space), Lit("S"), Plus(Digit)>>

(***************************************************************************)
(* One line of parse_d356.                                                 *)
(***************************************************************************)
\* Variant of Geometry: x and y read from each other's group.
Geometry_Swapped(geom) ==
    LET gm == ReSearch(geom_pattern, geom)
    IN IF gm # None
       THEN [x |-> Some(ToInt(Group(geom, gm[1], 5, 6))),
             y |-> Some(ToInt(Group(geom, gm[1], 2, 3))),
             rotation |-> Some(ToInt(Group(geom, gm[1], 9, 9))),
             symbol_id |-> Some(Group(geom, gm[1], 12, 12))]
       ELSE [x |-> None, y |-> None, rotation |-> None, symbol_id |-> None]

\* geom_pattern.search(geom) and the four fields read from it.
Geometry(geom) ==
    LET gm == ReSearch(geom_pattern, geom)
    IN IF gm # None
       THEN [x |-> Some(ToInt(Group(geom, gm[1], 2, 3))),
             y |-> Some(ToInt(Group(geom, gm[1], 5, 6))),
             rotation |-> Some(ToInt(Group(geom, gm[1], 9, 9))),
             symbol_id |-> Some(Group(geom, gm[1], 12, 12))]
       ELSE [x |-> None, y |-> None, rotation |-> None, symbol_id |-> None]

\* pin_info of a line matched by netline_pattern.
PinInfo(s, m) ==
    LET geom == Group(s, m, 6, 6)
        g == Geometry(geom)
    IN [net_id |-> Group(s, m, 1, 1),
        net_name |-> Group(s, m, 2, 2),
        component |-> Group(s, m, 4, 4),
        geom |-> geom,
        x |-> g.x, y |-> g.y, rotation |-> g.rotation, symbol_id |-> g.symbol_id]

\* Variants of D356Line: a property line without a value records its key
\* with an empty value; a net line whose geometry does not match is dropped.
D356Line_Valueless(line) ==
    LET s == Strip(line)
    IN IF s = <<>>
       THEN [kind |-> "skip"]
       ELSE IF StartsWith(s, <<"P", " ">>)
       THEN LET m == ReMatch(prop_pattern, s)
            IN IF m # None
               THEN [kind |-> "prop",
                     key |-> Group(s, m[1], 3, 3),
                     value |-> Strip(Group(s, m[1], 5, 5))]
               ELSE [kind |-> "prop",
                     key |-> SubSeq(s, 3, Len(s)),
                     value |-> <<>>]
       ELSE LET m == ReMatch(netline_pattern, s)
            IN IF m # None
               THEN [kind |-> "net", pin |-> PinInfo(s, m[1])]
               ELSE [kind |-> "skip"]

D356Line_Abort(line) ==
    LET s == Strip(line)
    IN IF s = <<>>
       THEN [kind |-> "skip"]
       ELSE IF StartsWith(s, <<"P", " ">>)
       THEN LET m == ReMatch(prop_pattern, s)
            IN IF m # None
               THEN [kind |-> "prop",
                     key |-> Group(s, m[1], 3, 3),
                     value |-> Strip(Group(s, m[1], 5, 5))]
               ELSE [kind |-> "skip"]
       ELSE LET m == ReMatch(netline_pattern, s)
            IN IF m # None /\ PinInfo(s, m[1]).x # None
               THEN [kind |-> "net", pin |-> PinInfo(s, m[1])]
               ELSE [kind |-> "skip"]

\* What the loop body of parse_d356 does with one line of the file: nothing
\* (skip), a metadata entry (prop) or a pin and a connection (net).
D356Line(line) ==
    LET s == Strip(line)
    IN IF s = <<>>
       THEN [kind |-> "skip"]
       ELSE IF StartsWith(s, <<"P", " ">>)
       THEN LET m == ReMatch(prop_pattern, s)
            IN IF m # None
               THEN [kind |-> "prop",
                     key |-> Group(s, m[1], 3, 3),
                     value |-> Strip(Group(s, m[1], 5, 5))]
               ELSE [kind |-> "skip"]
       ELSE LET m == ReMatch(netline_pattern, s)
            IN IF m # None
               THEN [kind |-> "net", pin |-> PinInfo(s, m[1])]
               ELSE [kind |-> "skip"]

(***************************************************************************)
(* One line of parse_ipc.                                                  *)
(***************************************************************************)
IpcLine(line) ==
    LET m == ReSearch(pattern, line)
    IN IF m # None
       THEN [kind |-> "pin",
             rec |-> [net |-> Group(line, m[1], 1, 1),
                      component |-> Group(line, m[1], 3, 3),
                      pin |-> Group(line, m[1], 5, 6),
                      x |-> ToInt(Group(line, m[1], 13, 13)),
                      y |-> ToInt(Group(line, m[1], 16, 16)),
                      rotation |-> ToInt(Group(line, m[1], 19, 19)),
                      side |-> Group(line, m[1], 22, 22)]]
       ELSE [kind |-> "skip"]

(***************************************************************************)
(* nets.append(...) of parse_ipc: the record goes to the end of the list.  *)
(***************************************************************************)
\* a variant that keeps the records of one net together
AppendRecord_Grouped(recs, rec) ==
    LET same == {i \in 1..Len(recs) : recs[i].net = rec.net}
    IN IF same = {} THEN Append(recs, rec)
       ELSE LET k == CHOOSE i \in same : \A j \in same : j <= i
            IN SubSeq(recs, 1, k) \o <<rec>> \o SubSeq(recs, k + 1, Len(recs))

AppendRecord(recs, rec) == Append(recs, rec)

(***************************************************************************)
(* Input lines, each without its line terminator: strip removes it in      *)
(* parse_d356, and in parse_ipc it follows the text, where no element of   *)
(* pattern can use it.  MaxLines bounds the length of the file.            *)
(***************************************************************************)
MaxLines == 3

\* "P JOB testboard"
LJob ==
    <<"P", " ", "J", "O", "B", " ", "t", "e", "s", "t", "b", "o", "a",
      "r", "d">>

\* "1A  U1   X0100Y0200R090S01"
LU1 ==
    <<"1", "A", " ", " ", "U", "1", " ", " ", " ", "X", "0", "1", "0",
      "0", "Y", "0", "2", "0", "0", "R", "0", "9", "0", "S", "0", "1">>

\* "1A  U2   X0300Y0200R180S02"
LU2 ==
    <<"1", "A", " ", " ", "U", "2", " ", " ", " ", "X", "0", "3", "0",
      "0", "Y", "0", "2", "0", "0", "R", "1", "8", "0", "S", "0", "2">>

\* "  P JOB  rev B "
LJobAgain ==
    <<" ", " ", "P", " ", "J", "O", "B", " ", " ", "r", "e", "v", " ",
      "B", " ">>

\* "P REV 2"
LRev ==
    <<"P", " ", "R", "E", "V", " ", "2">>

\* "P JOB"
LPropNoValue ==
    <<"P", " ", "J", "O", "B">>

\* "P\tK v"
LPropTab ==
    <<"P", "\t", "K", " ", "v">>

\* "  "
LBlank ==
    <<" ", " ">>

\* "C  board"
LComment ==
    <<"C", " ", " ", "b", "o", "a", "r", "d">>

\* "7"
LOnlyNet ==
    <<"7">>

\* "2 U1 X-5Y+7"
LNoRS ==
    <<"2", " ", "U", "1", " ", "X", "-", "5", "Y", "+", "7">>

\* "1B U1 X1 Y2R3S4"
LGapXY ==
    <<"1", "B", " ", "U", "1", " ", "X", "1", " ", "Y", "2", "R", "3",
      "S", "4">>

\* "3N/C U2 X1Y2R3SA"
LSlashName ==
    <<"3", "N", "/", "C", " ", "U", "2", " ", "X", "1", "Y", "2", "R",
      "3", "S", "A">>

\* "1A U1 X1X2Y3zR4R5qS6S7"
LTwoX ==
    <<"1", "A", " ", "U", "1", " ", "X", "1", "X", "2", "Y", "3", "z",
      "R", "4", "R", "5", "q", "S", "6", "S", "7">>

\* "4 U2 X-5Y+7 zR90/S0A"
LGaps ==
    <<"4", " ", "U", "2", " ", "X", "-", "5", "Y", "+", "7", " ", "z",
      "R", "9", "0", "/", "S", "0", "A">>

\* "5V U1 -1 PA01X 1Y 2X3Y4R270 S0"
I5V1 ==
    <<"5", "V", " ", "U", "1", " ", "-", "1", " ", "P", "A", "0", "1",
      "X", " ", "1", "Y", " ", "2", "X", "3", "Y", "4", "R", "2", "7",
      "0", " ", "S", "0">>

\* "5V U2 2 PA01X 10Y 20 R0 S1"
I5V2 ==
    <<"5", "V", " ", "U", "2", " ", "2", " ", "P", "A", "0", "1", "X",
      " ", "1", "0", "Y", " ", "2", "0", " ", "R", "0", " ", "S", "1">>

\* "GND U1 3 PA01X5Y6R90 S0"
IGnd ==
    <<"G", "N", "D", " ", "U", "1", " ", "3", " ", "P", "A", "0", "1",
      "X", "5", "Y", "6", "R", "9", "0", " ", "S", "0">>

\* "327N/C    U11   -15   PA01X 029311Y 015709X0709Y0315R270 S0"
IReal ==
    <<"3", "2", "7", "N", "/", "C", " ", " ", " ", " ", "U", "1", "1",
      " ", " ", " ", "-", "1", "5", " ", " ", " ", "P", "A", "0", "1",
      "X", " ", "0", "2", "9", "3", "1", "1", "Y", " ", "0", "1", "5",
      "7", "0", "9", "X", "0", "7", "0", "9", "Y", "0", "3", "1", "5",
      "R", "2", "7", "0", " ", "S", "0">>

\* "GND U1 3 PA01X5Y6R90 SA"
ISideA ==
    <<"G", "N", "D", " ", "U", "1", " ", "3", " ", "P", "A", "0", "1",
      "X", "5", "Y", "6", "R", "9", "0", " ", "S", "A">>

\* "# header"
IHeader ==
    <<"#", " ", "h", "e", "a", "d", "e", "r">>

\* ""
IBlank ==
    <<>>

\* "zz 5V U1 -1 PA1X1Y2R3 S4"
ILead ==
    <<"z", "z", " ", "5", "V", " ", "U", "1", " ", "-", "1", " ", "P",
      "A", "1", "X", "1", "Y", "2", "R", "3", " ", "S", "4">>

\* "GND U2 4 PA1X5Y6R90 S0A"
ISideTail ==
    <<"G", "N", "D", " ", "U", "2", " ", "4", " ", "P", "A", "1", "X",
      "5", "Y", "6", "R", "9", "0", " ", "S", "0", "A">>

\* "5V U1 1 PA1X2Y3R4 S5 R6 S7"
ITwoR ==
    <<"5", "V", " ", "U", "1", " ", "1", " ", "P", "A", "1", "X", "2",
      "Y", "3", "R", "4", " ", "S", "5", " ", "R", "6", " ", "S", "7">>

D356Lines ==
    {LJob, LU1, LU2, LJobAgain, LRev, LPropNoValue, LPropTab, LBlank, LComment,
     LOnlyNet, LNoRS, LGapXY, LSlashName, LTwoX, LGaps}

IpcLines ==
    {I5V1, I5V2, IGnd, IReal, ISideA, IHeader, IBlank, ILead, ISideTail, ITwoR}

\* The loop bodies tabulated over the input lines.
D356Table == [l \in D356Lines |-> D356Line(l)]
IpcTable == [l \in IpcLines |-> IpcLine(l)]

(***************************************************************************)
(* The parsers as state machines: one call of parse_d356 or parse_ipc.     *)
(***************************************************************************)
VARIABLES pc, parser, file, metadata, components, nets, records, result, error,
          snippets, caller, paths, idx, processed, response, qa_chain,
          extra_docs, doc_idx, calls, served, doc, file_type

\* the Word files build_pipeline adds after the netlist
docVars == <<extra_docs, doc_idx>>

\* the state of the code that calls the parsers: build_pipeline, upload_files
callerVars == <<snippets, caller, paths, idx, processed, response, qa_chain, docVars>>

\* the state of the other programs: parser invocations running side by side,
\* the requests the server has answered, the generated Word document, and
\* the file type the command-line tool detected
otherVars == <<calls, served, doc, file_type>>

vars == <<pc, parser, file, metadata, components, nets, records, result, error,
          callerVars, otherVars>>

\* the exceptions open(file_path, "r") raises
OpenErrors == {"FileNotFoundError", "PermissionError"}

\* a parser called on its own, by no pipeline
NoCaller ==
    /\ snippets = None
    /\ caller = "none"
    /\ paths = <<>>
    /\ idx = 0
    /\ processed = <<>>
    /\ response = None
    /\ qa_chain = None
    /\ extra_docs = <<>>
    /\ doc_idx = 0

\* no other program runs
NoOthers ==
    /\ calls = <<>>
    /\ served = 0
    /\ doc = <<>>
    /\ file_type = None

Init ==
    /\ pc = "start"
    /\ parser \in {"d356", "ipc"}
    /\ file = <<>>
    /\ metadata = <<>>
    /\ components = <<>>
    /\ nets = <<>>
    /\ records = <<>>
    /\ result = None
    /\ error = None
    /\ NoCaller
    /\ NoOthers

\* open(file_path, "r") succeeds
open_ok ==
    /\ pc = "start"
    /\ pc' = "reading"
    /\ UNCHANGED <<parser, file, metadata, components, nets, records, result>>
    /\ UNCHANGED <<error, callerVars, otherVars>>

\* Variant of open_fail: the failure is swallowed and an empty model returned.
open_fail_EmptyModel ==
    /\ pc = "start"
    /\ pc' = "done"
    /\ result' = IF parser = "d356"
                 THEN Some([metadata |-> <<>>, components |-> <<>>, nets |-> <<>>])
                 ELSE Some(<<>>)
    /\ UNCHANGED <<parser, file, metadata, components, nets, records, error>>
    /\ UNCHANGED <<callerVars, otherVars>>

\* open(file_path, "r") raises: the exception leaves the function
open_fail ==
    /\ pc = "start"
    /\ pc' = "raised"
    /\ \E e \in OpenErrors : error' = Some(e)
    /\ UNCHANGED <<parser, file, metadata, components, nets, records, result>>
    /\ UNCHANGED <<callerVars, otherVars>>

\* one iteration of "for line in f" in parse_d356
parse_d356_line ==
    /\ parser = "d356"
    /\ pc = "reading"
    /\ Len(file) < MaxLines
    /\ \E line \in D356Lines :
         LET r == D356Table[line]
         IN /\ file' = Append(file, line)
            /\ metadata' = IF r.kind = "prop"
                           THEN SetMetadata(metadata, r.key, r.value)
                           ELSE metadata
            /\ components' = IF r.kind = "net"
                             THEN AppendPin(components, r.pin.component, r.pin)
                             ELSE components
            /\ nets' = IF r.kind = "net"
                       THEN AddConnection(nets, r.pin.net_id, r.pin.net_name,
                                          r.pin.component)
                       ELSE nets
    /\ UNCHANGED <<pc, parser, records, result>>
    /\ UNCHANGED <<error, callerVars, otherVars>>

\* end of file in parse_d356: the final schema is returned
parse_d356_return ==
    /\ parser = "d356"
    /\ pc = "reading"
    /\ pc' = "done"
    /\ result' = Some([metadata |-> metadata, components |-> components,
                       nets |-> nets])
    /\ UNCHANGED <<parser, file, metadata, components, nets, records>>
    /\ UNCHANGED <<error, callerVars, otherVars>>

\* one iteration of "for line in f" in parse_ipc
parse_ipc_line ==
    /\ parser = "ipc"
    /\ pc = "reading"
    /\ Len(file) < MaxLines
    /\ \E line \in IpcLines :
         LET r == IpcTable[line]
         IN /\ file' = Append(file, line)
            /\ records' = IF r.kind = "pin" THEN AppendRecord(records, r.rec)
                          ELSE records
    /\ UNCHANGED <<pc, parser, metadata, components, nets, result>>
    /\ UNCHANGED <<error, callerVars, otherVars>>

\* end of file in parse_ipc
parse_ipc_return ==
    /\ parser = "ipc"
    /\ pc = "reading"
    /\ pc' = "done"
    /\ result' = Some(records)
    /\ UNCHANGED <<parser, file, metadata, components, nets, records>>
    /\ UNCHANGED <<error, callerVars, otherVars>>

Next ==
    \/ open_ok
    \/ open_fail
    \/ parse_d356_line
    \/ parse_d356_return
    \/ parse_ipc_line
    \/ parse_ipc_return

Spec == Init /\ [][Next]_vars

(***************************************************************************)
(* Vocabulary of the properties.                                           *)
(***************************************************************************)
\* The lines of the file read so far that parse_d356 matched as net lines,
\* and their pins, both in file order.
NetLineIdx == {i \in 1..Len(file) : D356Table[file[i]].kind = "net"}
PropLineIdx == {i \in 1..Len(file) : D356Table[file[i]].kind = "prop"}
PinAt(i) == D356Table[file[i]].pin

RECURSIVE PinsUpTo(_, _)
PinsUpTo(n, c) ==
    IF n = 0 THEN <<>>
    ELSE IF n \in NetLineIdx /\ PinAt(n).component = c
    THEN Append(PinsUpTo(n - 1, c), PinAt(n))
    ELSE PinsUpTo(n - 1, c)

\* The whitespace-separated fields of a text: the first position at or after
\* i that holds (does not hold) whitespace; Len + 1 when there is none.
NextSpace(s, i) == Min({j \in i..(Len(s) + 1) : j = Len(s) + 1 \/ s[j] \in Space})
NextNonSpace(s, i) == Min({j \in i..(Len(s) + 1) : j = Len(s) + 1 \/ s[j] \notin Space})
\* The end of the run of digits that starts at i (i - 1 when there is none).
DigitRunEnd(s, i) == Min({j \in i..(Len(s) + 1) : j = Len(s) + 1 \/ s[j] \notin Digit}) - 1

Occurrences(seq, v) == Cardinality({i \in 1..Len(seq) : seq[i] = v})

AllPins == UNION {{components[i].pins[j] : j \in 1..Len(components[i].pins)} :
                  i \in 1..Len(components)}

RECURSIVE SumLen(_, _)
SumLen(n, lens) == IF n = 0 THEN 0 ELSE lens[n] + SumLen(n - 1, lens)

TJob == <<"J", "O", "B">>
TTestboard == <<"t", "e", "s", "t", "b", "o", "a", "r", "d">>
TRevB == <<"r", "e", "v", " ", "B">>
TU1 == <<"U", "1">>
TU2 == <<"U", "2">>

TypeOK ==
    /\ pc \in {"start", "reading", "raised", "done"}
    /\ Len(file) <= MaxLines

(***************************************************************************)
(* C1: parsing the three-line example 'P JOB testboard' /                  *)
(* '1A  U1   X0100Y0200R090S01' / '1A  U2   X0300Y0200R180S02' returns     *)
(* metadata {JOB: testboard}, component U1 with exactly one pin (net_id    *)
(* 1, net_name A, x 100, y 200, rotation 90, symbol 01), component U2 with *)
(* exactly one pin (net_id 1, net_name A, x 300, y 200, rotation 180,      *)
(* symbol 02), and net 1 with name A and connections [U1, U2].             *)
(***************************************************************************)
C1_IsExamplePin(p, comp, x, y, rot, sid) ==
    /\ p.net_id = <<"1">>
    /\ p.net_name = <<"A">>
    /\ p.component = comp
    /\ p.x = Some(x)
    /\ p.y = Some(y)
    /\ p.rotation = Some(rot)
    /\ p.symbol_id = Some(sid)

C1_Example ==
    (parser = "d356" /\ pc = "done" /\ file = <<LJob, LU1, LU2>>) =>
        /\ result # None
        /\ result[1].metadata = <<[key |-> TJob, value |-> TTestboard]>>
        /\ Len(result[1].components) = 2
        /\ DictKeys(result[1].components) = {TU1, TU2}
        /\ Len(DictGet(result[1].components, TU1).pins) = 1
        /\ C1_IsExamplePin(DictGet(result[1].components, TU1).pins[1],
                           TU1, 100, 200, 90, <<"0", "1">>)
        /\ Len(DictGet(result[1].components, TU2).pins) = 1
        /\ C1_IsExamplePin(DictGet(result[1].components, TU2).pins[1],
                           TU2, 300, 200, 180, <<"0", "2">>)
        /\ result[1].nets =
             <<[key |-> <<"1">>, name |-> <<"A">>, connections |-> <<TU1, TU2>>]>>

C1_Witness == parser = "d356" /\ pc = "done" /\ file = <<LJob, LU1, LU2>>

(***************************************************************************)
(* C2: the component ids of the model (the keys of the components map,     *)
(* each occurring once) are exactly the component tokens (the second       *)
(* whitespace-separated field) of the lines matched as net lines.          *)
(***************************************************************************)
C2_TokenOf ==
    [l \in D356Lines |->
        LET s == Strip(l)
            from == NextNonSpace(s, NextSpace(s, 1))
        IN SubSeq(s, from, NextSpace(s, from) - 1)]

C2_ComponentToken(line) == C2_TokenOf[line]

C2_ComponentIds ==
    parser = "d356" =>
        /\ DictKeys(components) = {C2_ComponentToken(file[i]) : i \in NetLineIdx}
        /\ Cardinality(DictKeys(components)) = Len(components)

C2_Witness ==
    /\ parser = "d356"
    /\ pc = "done"
    /\ Len(file) = 3
    /\ Cardinality(NetLineIdx) = 2
    /\ DictKeys(components) = {TU1, TU2}

(***************************************************************************)
(* C3: the pins of a component are the pins of the matched net lines that  *)
(* name it, one per line, in file order, whatever lines lie between them;  *)
(* identical repeated lines each add a pin.                                *)
(***************************************************************************)
C3_PinOrder ==
    parser = "d356" =>
        \A i \in 1..Len(components) :
            components[i].pins = PinsUpTo(Len(file), components[i].key)

C3_Witness ==
    /\ parser = "d356"
    /\ file = <<LU1, LU2, LU1>>
    /\ Len(DictGet(components, TU1).pins) = 2
    /\ DictGet(components, TU1).pins[1] = DictGet(components, TU1).pins[2]

(***************************************************************************)
(* C4: after any prefix of the lines, every pin stored under component c   *)
(* has component field c and a net_id that is a key of nets; for every net *)
(* n and component c the pins of c on n are as many as the occurrences of  *)
(* c in n's connections; and the pins, and the connections, are as many as *)
(* the matched net lines.                                                  *)
(***************************************************************************)
C4_PinsOn(c, n) ==
    LET ps == DictGet(components, c).pins
    IN Cardinality({j \in 1..Len(ps) : ps[j].net_id = n})

C4_PinNetConsistency ==
    parser = "d356" =>
        /\ \A i \in 1..Len(components) : \A j \in 1..Len(components[i].pins) :
              /\ components[i].pins[j].component = components[i].key
              /\ DictHas(nets, components[i].pins[j].net_id)
        /\ \A k \in 1..Len(nets) :
              /\ \A c \in DictKeys(components) :
                    C4_PinsOn(c, nets[k].key) = Occurrences(nets[k].connections, c)
              /\ \A j \in 1..Len(nets[k].connections) :
                    DictHas(components, nets[k].connections[j])
        /\ SumLen(Len(components), [i \in 1..Len(components) |-> Len(components[i].pins)])
             = Cardinality(NetLineIdx)
        /\ SumLen(Len(nets), [k \in 1..Len(nets) |-> Len(nets[k].connections)])
             = Cardinality(NetLineIdx)

C4_Witness ==
    /\ parser = "d356"
    /\ Len(file) = 3
    /\ Cardinality(NetLineIdx) = 3
    /\ \E k \in 1..Len(nets) : Occurrences(nets[k].connections, TU1) = 2
    /\ Len(components) = 2

(***************************************************************************)
(* The last line read and, when parse_d356 matched it as a net line, its   *)
(* fields as netline_pattern captured them and the pin stored for it.      *)
(***************************************************************************)
LastLine == file[Len(file)]
\* the patterns applied to each input line, trimmed as parse_d356 trims it
PropMatchOf == [l \in D356Lines |-> ReMatch(prop_pattern, Strip(l))]
NetMatchOf == [l \in D356Lines |-> ReMatch(netline_pattern, Strip(l))]
IpcMatchOf == [l \in IpcLines |-> ReSearch(pattern, l)]
NetFieldsOf ==
    [l \in D356Lines |->
        IF NetMatchOf[l] = None THEN <<>>
        ELSE [k \in 1..6 |-> Group(Strip(l), NetMatchOf[l][1], k, k)]]
IsNetLine(line) ==
    /\ Strip(line) # <<>>
    /\ ~StartsWith(Strip(line), <<"P", " ">>)
    /\ NetMatchOf[line] # None
NetLineGroup(line, k) == NetFieldsOf[line][k]
LastPin ==
    LET ps == DictGet(components, NetLineGroup(LastLine, 4)).pins
    IN ps[Len(ps)]
NoGeometry(p) == p.x = None /\ p.y = None /\ p.rotation = None /\ p.symbol_id = None
AllGeometry(p) == p.x # None /\ p.y # None /\ p.rotation # None /\ p.symbol_id # None

(***************************************************************************)
(* C5: reading a line that matches neither the metadata grammar nor the    *)
(* net-line grammar leaves metadata, components and nets as they were,     *)
(* raises nothing, and the parser goes on to the next line; the same in    *)
(* parse_ipc for a line that does not match the composite grammar.         *)
(***************************************************************************)
C5_Neither(line) == PropMatchOf[line] = None /\ NetMatchOf[line] = None

C5_SkipStep ==
    /\ (parser = "d356" /\ Len(file') = Len(file) + 1 /\ C5_Neither(file'[Len(file')]))
          => /\ metadata' = metadata
             /\ components' = components
             /\ nets' = nets
             /\ pc' = "reading"
    /\ (parser = "ipc" /\ Len(file') = Len(file) + 1
          /\ IpcMatchOf[file'[Len(file')]] = None)
          => /\ records' = records
             /\ pc' = "reading"

C5_SkipLeavesModel == [][C5_SkipStep]_vars

C5_Witness ==
    /\ parser = "d356"
    /\ pc = "done"
    /\ file = <<LJob, LU1, LComment>>
    /\ C5_Neither(LComment)
    /\ Len(metadata) = 1 /\ Len(components) = 1 /\ Len(nets) = 1

(***************************************************************************)
(* C6: metadata maps each key of a property line to the trimmed value of   *)
(* the last property line with that key, and holds no other key; a         *)
(* repeated key is overwritten, never an error.                            *)
(***************************************************************************)
\* the second field of a trimmed property line, and the rest of it, trimmed
C6_KeyOf ==
    [l \in D356Lines |->
        LET s == Strip(l)
            from == NextNonSpace(s, 2)
        IN SubSeq(s, from, NextSpace(s, from) - 1)]

C6_ValueOf ==
    [l \in D356Lines |->
        LET s == Strip(l)
            keyEnd == NextSpace(s, NextNonSpace(s, 2)) - 1
        IN Strip(SubSeq(s, keyEnd + 1, Len(s)))]

C6_Key(line) == C6_KeyOf[line]
C6_Value(line) == C6_ValueOf[line]

C6_LastWriteWins ==
    parser = "d356" =>
        /\ pc # "raised" \/ file = <<>>
        /\ DictKeys(metadata) = {C6_Key(file[i]) : i \in PropLineIdx}
        /\ Cardinality(DictKeys(metadata)) = Len(metadata)
        /\ \A i \in PropLineIdx :
              (\A j \in PropLineIdx : j > i => C6_Key(file[j]) # C6_Key(file[i]))
                 => DictGet(metadata, C6_Key(file[i])).value = C6_Value(file[i])

C6_Witness ==
    /\ parser = "d356"
    /\ pc = "done"
    /\ file = <<LJob, LJobAgain, LRev>>
    /\ Len(metadata) = 2
    /\ DictGet(metadata, TJob).value = TRevB

(***************************************************************************)
(* C7: a line matched as a net line whose geometry lacks one of the four   *)
(* anchors still gets its pin appended to the component and its component *)
(* appended to the net's connections, with x, y, rotation and symbol id    *)
(* all absent; nothing is raised.                                          *)
(***************************************************************************)
\* an anchor letter followed by a number (X, Y signed; R unsigned), or S
\* followed by some token character
C7_HasNumberAfter(g, c, signed) ==
    \E i \in 1..Len(g) :
        /\ g[i] = c
        /\ \/ i < Len(g) /\ g[i + 1] \in Digit
           \/ signed /\ i + 1 < Len(g) /\ g[i + 1] \in Sign /\ g[i + 2] \in Digit
C7_HasToken(g, c) == \E i \in 1..(Len(g) - 1) : g[i] = c /\ g[i + 1] \in NonSpace
C7_LacksAnchor(g) ==
    \/ ~C7_HasNumberAfter(g, "X", TRUE)
    \/ ~C7_HasNumberAfter(g, "Y", TRUE)
    \/ ~C7_HasNumberAfter(g, "R", FALSE)
    \/ ~C7_HasToken(g, "S")

C7_IncompleteGeometry ==
    (parser = "d356" /\ file # <<>> /\ IsNetLine(LastLine)
       /\ C7_LacksAnchor(NetLineGroup(LastLine, 6)))
      => /\ pc # "raised"
         /\ DictHas(components, NetLineGroup(LastLine, 4))
         /\ LastPin.net_id = NetLineGroup(LastLine, 1)
         /\ LastPin.geom = NetLineGroup(LastLine, 6)
         /\ NoGeometry(LastPin)
         /\ DictHas(nets, NetLineGroup(LastLine, 1))
         /\ LET cs == DictGet(nets, NetLineGroup(LastLine, 1)).connections
            IN cs[Len(cs)] = NetLineGroup(LastLine, 4)

C7_Witness ==
    /\ parser = "d356"
    /\ file = <<LU1, LNoRS>>
    /\ C7_LacksAnchor(NetLineGroup(LNoRS, 6))
    /\ Len(DictGet(components, TU1).pins) = 2
    /\ NoGeometry(DictGet(components, TU1).pins[2])

(***************************************************************************)
(* C8 as stated: the symbol/side identifier is any token.  When the        *)
(* geometry holds X<int>Y<int>, R<int> and S followed by a token,          *)
(* parse_d356 records that token as symbol id, with x, y, rotation         *)
(* present, digits or not; parse_ipc accepts a non-numeric side token.     *)
(***************************************************************************)
\* geom_pattern and pattern with any token after S
C8_geom_any_token == [geom_pattern EXCEPT ![12] = Plus(NonSpace)]
C8_pattern_any_side == [pattern EXCEPT ![22] = Plus(NonSpace)]

C8_AnyToken ==
    /\ (parser = "d356" /\ file # <<>> /\ IsNetLine(LastLine)
          /\ ReSearch(C8_geom_any_token, NetLineGroup(LastLine, 6)) # None)
         => /\ AllGeometry(LastPin)
            /\ LastPin.symbol_id =
                 Some(Group(NetLineGroup(LastLine, 6),
                            ReSearch(C8_geom_any_token, NetLineGroup(LastLine, 6))[1],
                            12, 12))
    /\ (parser = "ipc" /\ file # <<>> /\ ReSearch(C8_pattern_any_side, LastLine) # None)
         => /\ records # <<>>
            /\ records[Len(records)].side =
                 Group(LastLine, ReSearch(C8_pattern_any_side, LastLine)[1], 22, 22)

(***************************************************************************)
(* C8 amended: the symbol/side identifier is kept as text, not converted   *)
(* to a number, but it has to be numeric.  A symbol id recorded by         *)
(* parse_d356 is a non-empty run of digits that follows an S in the        *)
(* geometry, copied as written and ending where the digits end; when no S  *)
(* of the geometry is followed by a digit, x, y, rotation and symbol id    *)
(* are all absent.  A side recorded by parse_ipc is a non-empty run of     *)
(* digits, and a line in which no S is followed by a digit gives no        *)
(* record.                                                                 *)
(***************************************************************************)
C8_IsDigits(t) == Len(t) >= 1 /\ \A i \in 1..Len(t) : t[i] \in Digit
C8_HasSDigit(t) == \E i \in 1..(Len(t) - 1) : t[i] = "S" /\ t[i + 1] \in Digit
\* sid stands in g right after an S and is not followed by a further digit
C8_CopiedAfterS(g, sid) ==
    \E i \in 1..Len(g) :
        /\ g[i] = "S"
        /\ i + Len(sid) <= Len(g)
        /\ SubSeq(g, i + 1, i + Len(sid)) = sid
        /\ (i + Len(sid) = Len(g) \/ g[i + Len(sid) + 1] \notin Digit)

C8_NumericSymbol ==
    /\ parser = "d356" =>
         /\ \A p \in AllPins :
               p.symbol_id # None =>
                  /\ C8_IsDigits(p.symbol_id[1])
                  /\ C8_CopiedAfterS(p.geom, p.symbol_id[1])
         /\ (file # <<>> /\ IsNetLine(LastLine)
               /\ ~C8_HasSDigit(NetLineGroup(LastLine, 6)))
              => NoGeometry(LastPin)
    /\ parser = "ipc" =>
         /\ \A i \in 1..Len(records) : C8_IsDigits(records[i].side)
         /\ Len(records) <= Cardinality({i \in 1..Len(file) : C8_HasSDigit(file[i])})

C8_Witness ==
    /\ parser = "d356"
    /\ file = <<LU1, LSlashName>>
    /\ ~C8_HasSDigit(NetLineGroup(LSlashName, 6))
    /\ DictGet(components, TU1).pins[1].symbol_id = Some(<<"0", "1">>)
    /\ NoGeometry(DictGet(components, TU2).pins[1])

(***************************************************************************)
(* C9 as stated: geometry extraction succeeds whenever the geometry holds  *)
(* X<signed int>, Y<signed int>, R<unsigned int>, S<token> in that order   *)
(* with any text between consecutive anchors, and each field comes from    *)
(* the first occurrence of its anchor.                                     *)
(***************************************************************************)
\* the four anchors in order, any text allowed between consecutive ones
C9_geom_gaps ==
    <<Lit("X"), Opt(Sign), Plus(Digit), LazyStar(AnyChar),
      Lit("Y"), Opt(Sign), Plus(Digit), LazyStar(AnyChar),
      Lit("R"), Plus(Digit), LazyStar(AnyChar), Lit("S"), Plus(Digit)>>

C9_GapsAnywhere ==
    (parser = "d356" /\ file # <<>> /\ IsNetLine(LastLine)
       /\ ReSearch(C9_geom_gaps, NetLineGroup(LastLine, 6)) # None)
      => LET g == NetLineGroup(LastLine, 6)
             m == ReSearch(C9_geom_gaps, g)[1]
         IN /\ LastPin.x = Some(ToInt(Group(g, m, 2, 3)))
            /\ LastPin.y = Some(ToInt(Group(g, m, 6, 7)))
            /\ LastPin.rotation = Some(ToInt(Group(g, m, 10, 10)))
            /\ LastPin.symbol_id = Some(Group(g, m, 13, 13))

(***************************************************************************)
(* C9 amended: geometry extraction succeeds exactly when the geometry      *)
(* holds X<signed int> directly followed by Y<signed int>, then, after any *)
(* text, R<unsigned int>, then, after any text, S<digits>.  x and y are    *)
(* read from the first X..Y pair, rotation from the first R<digits> after  *)
(* that pair, symbol id from the first S<digits> after that rotation; each *)
(* number is its whole run of digits.                                      *)
(***************************************************************************)
\* the end of the signed integer that follows position i; 0 when none does
C9_SignedEnd(g, i) ==
    LET d == IF i < Len(g) /\ g[i + 1] \in Sign THEN i + 2 ELSE i + 1
    IN IF d <= Len(g) /\ g[d] \in Digit THEN DigitRunEnd(g, d) ELSE 0

C9_XYPairs(g) ==
    {i \in 1..Len(g) :
        /\ g[i] = "X"
        /\ C9_SignedEnd(g, i) > 0
        /\ C9_SignedEnd(g, i) < Len(g)
        /\ g[C9_SignedEnd(g, i) + 1] = "Y"
        /\ C9_SignedEnd(g, C9_SignedEnd(g, i) + 1) > 0}

C9_Anchors(g, c, from) == {k \in from..(Len(g) - 1) : g[k] = c /\ g[k + 1] \in Digit}

C9_Scan(g) ==
    IF C9_XYPairs(g) = {} THEN None
    ELSE LET i == Min(C9_XYPairs(g))
             xe == C9_SignedEnd(g, i)
             ye == C9_SignedEnd(g, xe + 1)
         IN IF C9_Anchors(g, "R", ye + 1) = {} THEN None
            ELSE LET k == Min(C9_Anchors(g, "R", ye + 1))
                     re == DigitRunEnd(g, k + 1)
                 IN IF C9_Anchors(g, "S", re + 1) = {} THEN None
                    ELSE LET m == Min(C9_Anchors(g, "S", re + 1))
                         IN Some([x |-> SubSeq(g, i + 1, xe),
                                  y |-> SubSeq(g, xe + 2, ye),
                                  rot |-> SubSeq(g, k + 1, re),
                                  sid |-> SubSeq(g, m + 1, DigitRunEnd(g, m + 1))])

C9_ScanOf ==
    [l \in D356Lines |-> IF NetMatchOf[l] = None THEN None ELSE C9_Scan(NetFieldsOf[l][6])]

C9_FirstMatch ==
    (parser = "d356" /\ file # <<>> /\ IsNetLine(LastLine))
      => LET sc == C9_ScanOf[LastLine]
         IN IF sc = None
            THEN NoGeometry(LastPin)
            ELSE /\ LastPin.x = Some(ToInt(sc[1].x))
                 /\ LastPin.y = Some(ToInt(sc[1].y))
                 /\ LastPin.rotation = Some(ToInt(sc[1].rot))
                 /\ LastPin.symbol_id = Some(sc[1].sid)

C9_Witness ==
    /\ parser = "d356"
    /\ file = <<LGaps, LTwoX, LGapXY>>
    /\ DictGet(components, TU2).pins[1].x = Some(0 - 5)
    /\ DictGet(components, TU2).pins[1].rotation = Some(90)
    /\ DictGet(components, TU1).pins[1].x = Some(2)
    /\ DictGet(components, TU1).pins[1].rotation = Some(4)
    /\ NoGeometry(DictGet(components, TU1).pins[2])

(***************************************************************************)
(* C10 as stated: a line is taken as a net line only when the leading      *)
(* numeric net id is directly followed by an optional purely alphabetic    *)
(* net name and then the separator before the component token; net_id is   *)
(* the leading digit run and net_name the alphabetic run after it.         *)
(***************************************************************************)
C10_AlphaRunEnd(s, i) ==
    Min({j \in i..(Len(s) + 1) : j = Len(s) + 1 \/ s[j] \notin (Upper \cup Lower)}) - 1

C10_AlphabeticName ==
    (parser = "d356" /\ file # <<>> /\ D356Table[LastLine].kind = "net")
      => LET s == Strip(LastLine)
             de == DigitRunEnd(s, 1)
             ae == C10_AlphaRunEnd(s, de + 1)
         IN /\ de >= 1
            /\ ae < Len(s) /\ s[ae + 1] \in Space
            /\ LastPin.net_id = SubSeq(s, 1, de)
            /\ LastPin.net_name = SubSeq(s, de + 1, ae)

(***************************************************************************)
(* C10 amended: a line is taken as a net line exactly when, trimmed, it    *)
(* is a first field that starts with a digit, a second field (the          *)
(* component id) and a non-empty rest (the geometry), separated by         *)
(* whitespace; net_id is the leading digit run of the first field and      *)
(* net_name is the rest of that field, possibly empty and made of any      *)
(* non-whitespace characters, not only letters.                            *)
(***************************************************************************)
C10_IsNetLineText(s) ==
    /\ s # <<>>
    /\ s[1] \in Digit
    /\ NextNonSpace(s, NextSpace(s, 1)) <= Len(s)
    /\ NextNonSpace(s, NextSpace(s, NextNonSpace(s, NextSpace(s, 1)))) <= Len(s)

\* the fields of each input line read as such a text
C10_FieldsOf ==
    [l \in D356Lines |->
        LET s == Strip(l)
            de == DigitRunEnd(s, 1)
            fe == NextSpace(s, 1) - 1
            cf == NextNonSpace(s, fe + 1)
            ce == NextSpace(s, cf) - 1
            gf == NextNonSpace(s, ce + 1)
        IN IF C10_IsNetLineText(s)
           THEN [isNet |-> TRUE,
                 net_id |-> SubSeq(s, 1, de),
                 net_name |-> SubSeq(s, de + 1, fe),
                 component |-> SubSeq(s, cf, ce),
                 geom |-> SubSeq(s, gf, Len(s))]
           ELSE [isNet |-> FALSE]]

C10_NetLineGrammar ==
    (parser = "d356" /\ file # <<>>)
      => LET f == C10_FieldsOf[LastLine]
         IN /\ (D356Table[LastLine].kind = "net") <=> f.isNet
            /\ f.isNet =>
                 /\ DictHas(components, f.component)
                 /\ LET ps == DictGet(components, f.component).pins
                    IN /\ ps[Len(ps)].net_id = f.net_id
                       /\ ps[Len(ps)].net_name = f.net_name
                       /\ ps[Len(ps)].component = f.component
                       /\ ps[Len(ps)].geom = f.geom
                 /\ DictHas(nets, f.net_id)
                 /\ DictGet(nets, f.net_id).name = f.net_name

C10_Witness ==
    /\ parser = "d356"
    /\ file = <<LU1, LSlashName>>
    /\ DictGet(components, TU2).pins[1].net_id = <<"3">>
    /\ DictGet(components, TU2).pins[1].net_name = <<"N", "/", "C">>
    /\ DictGet(components, TU1).pins[1].net_name = <<"A">>


(***************************************************************************)
(* C11: parse_ipc holds, and at the end returns, exactly one record for    *)
(* each line read so far that matches the composite grammar and none for   *)
(* any other line, in the order of the lines; records of one net are not   *)
(* brought together.                                                       *)
(***************************************************************************)
RECURSIVE C11_RecordsUpTo(_)
C11_RecordsUpTo(n) ==
    IF n = 0 THEN <<>>
    ELSE IF IpcMatchOf[file[n]] # None
         THEN Append(C11_RecordsUpTo(n - 1), IpcTable[file[n]].rec)
         ELSE C11_RecordsUpTo(n - 1)

C11_MatchedLines == {i \in 1..Len(file) : IpcMatchOf[file[i]] # None}

C11_OneRecordPerMatch ==
    parser = "ipc" =>
        /\ records = C11_RecordsUpTo(Len(file))
        /\ Len(records) = Cardinality(C11_MatchedLines)
        /\ pc = "done" => result = Some(records)

C11_Witness ==
    /\ parser = "ipc"
    /\ pc = "done"
    /\ file = <<I5V1, IGnd, I5V2>>
    /\ Len(result[1]) = 3
    /\ result[1][1].net = <<"5", "V">>
    /\ result[1][2].net = <<"G", "N", "D">>
    /\ result[1][3].net = <<"5", "V">>

(***************************************************************************)
(* The flat composite grammar read directly from the text of a line: three *)
(* whitespace-separated fields, the block PA<digits>X<digits>Y<digits>     *)
(* (whitespace allowed after X and after Y) at the start of the fourth,    *)
(* and after it the last R<digits><whitespace>S<digit>.                    *)
(***************************************************************************)
C12_At(l, k) == IF k \in 1..Len(l) THEN l[k] ELSE ""
C12_FieldStarts(l) ==
    {i \in 1..Len(l) : l[i] \notin Space /\ (i = 1 \/ l[i - 1] \in Space)}
C12_AllIn(l, a, b, cs) == a <= b /\ \A k \in a..b : l[k] \in cs
C12_IsPin(l, a, b) ==
    IF C12_At(l, a) = "-" THEN C12_AllIn(l, a + 1, b, Digit) ELSE C12_AllIn(l, a, b, Digit)

\* the ends of the x and y digit runs of a PA block that starts at p
C12_Block(l, p) ==
    LET a == DigitRunEnd(l, p + 2)
        xs == NextNonSpace(l, a + 2)
        xe == DigitRunEnd(l, xs)
        ys == NextNonSpace(l, xe + 2)
        ye == DigitRunEnd(l, ys)
    IN IF /\ C12_At(l, p) = "P" /\ C12_At(l, p + 1) = "A"
          /\ a >= p + 2 /\ C12_At(l, a + 1) = "X"
          /\ xe >= xs /\ C12_At(l, xe + 1) = "Y"
          /\ ye >= ys
       THEN Some([xs |-> xs, xe |-> xe, ys |-> ys, ye |-> ye])
       ELSE None

\* the positions k >= from of an R followed by digits, whitespace, S, digit
C12_Tails(l, from) ==
    {k \in from..Len(l) :
        LET re == DigitRunEnd(l, k + 1)
            s == NextNonSpace(l, re + 1)
        IN /\ l[k] = "R" /\ re >= k + 1
           /\ s > re + 1 /\ C12_At(l, s) = "S" /\ C12_At(l, s + 1) \in Digit}

\* the fields of the line when its field that starts at i is the net token
C12_ScanFrom(l, i) ==
    LET e1 == NextSpace(l, i) - 1
        s2 == NextNonSpace(l, e1 + 1)
        e2 == NextSpace(l, s2) - 1
        s3 == NextNonSpace(l, e2 + 1)
        e3 == NextSpace(l, s3) - 1
        s4 == NextNonSpace(l, e3 + 1)
    IN IF ~(C12_AllIn(l, s2, e2, AlNum) /\ C12_IsPin(l, s3, e3)) THEN None
       ELSE LET b == C12_Block(l, s4)
            IN IF b = None THEN None
               ELSE IF C12_Tails(l, b[1].ye + 1) = {} THEN None
               ELSE LET k == Max(C12_Tails(l, b[1].ye + 1))
                        re == DigitRunEnd(l, k + 1)
                        s == NextNonSpace(l, re + 1)
                    IN Some([net |-> SubSeq(l, i, e1),
                             component |-> SubSeq(l, s2, e2),
                             pin |-> SubSeq(l, s3, e3),
                             x |-> SubSeq(l, b[1].xs, b[1].xe),
                             y |-> SubSeq(l, b[1].ys, b[1].ye),
                             rotation |-> SubSeq(l, k + 1, re),
                             sidestart |-> s + 1])

C12_Scan(l) ==
    LET ok == {i \in C12_FieldStarts(l) : C12_ScanFrom(l, i) # None}
    IN IF ok = {} THEN None ELSE C12_ScanFrom(l, Min(ok))

C12_ScanOf == [l \in IpcLines |-> C12_Scan(l)]

\* the record expected for the last line read, its side ending before position se
C12_Expected(se) ==
    LET sc == C12_ScanOf[LastLine][1]
    IN [net |-> sc.net, component |-> sc.component, pin |-> sc.pin,
        x |-> ToInt(sc.x), y |-> ToInt(sc.y), rotation |-> ToInt(sc.rotation),
        side |-> SubSeq(LastLine, sc.sidestart, se - 1)]

C12_LastLineScanned == parser = "ipc" /\ file # <<>> /\ C12_ScanOf[LastLine] # None

(***************************************************************************)
(* C12 as stated: for every line matched by the flat composite grammar the *)
(* record holds the net, component and pin tokens as text (the pin with    *)
(* its sign), x, y and rotation as the integer values of the complete      *)
(* digit runs after X, Y and R, and side as the token after S, that is the *)
(* text from S up to the next whitespace.                                  *)
(***************************************************************************)
C12_SideToken ==
    C12_LastLineScanned =>
        /\ IpcTable[LastLine].kind = "pin"
        /\ records # <<>>
        /\ records[Len(records)] =
             C12_Expected(NextSpace(LastLine, C12_ScanOf[LastLine][1].sidestart))

(***************************************************************************)
(* C12, amended: as above, but side is the complete run of digits that     *)
(* directly follows S, kept as text; what follows that run on the line is  *)
(* ignored.  A line is given a record exactly when the direct reading of   *)
(* the grammar finds its fields.                                           *)
(***************************************************************************)
C12_RecordFields ==
    /\ C12_LastLineScanned =>
         /\ IpcTable[LastLine].kind = "pin"
         /\ records # <<>>
         /\ records[Len(records)] =
              C12_Expected(DigitRunEnd(LastLine, C12_ScanOf[LastLine][1].sidestart) + 1)
    /\ (parser = "ipc" /\ file # <<>> /\ C12_ScanOf[LastLine] = None)
         => IpcTable[LastLine].kind = "skip"

C12_Witness ==
    /\ parser = "ipc"
    /\ file = <<IReal, ISideTail, ITwoR>>
    /\ Len(records) = 3
    /\ records[1].pin = <<"-", "1", "5">>
    /\ records[1].x = 29311 /\ records[1].y = 15709 /\ records[1].rotation = 270
    /\ records[2].side = <<"0">>
    /\ records[3].rotation = 6 /\ records[3].side = <<"7">>

(***************************************************************************)
(* flatten_netlist: the retrieval chunks of a parsed model, as texts.      *)
(* The fixed parts of its f-strings:                                       *)
(***************************************************************************)
\* "Metadata:\n"
TxtMetadataHead ==
    <<"M", "e", "t", "a", "d", "a", "t", "a", ":", "\n">>

\* ": "
TxtColon ==
    <<":", " ">>

\* "\n"
TxtNewline ==
    <<"\n">>

\* "Component: "
TxtComponentHead ==
    <<"C", "o", "m", "p", "o", "n", "e", "n", "t", ":", " ">>

\* "Pin connected to net '"
TxtPinNet ==
    <<"P", "i", "n", " ", "c", "o", "n", "n", "e", "c", "t", "e", "d",
      " ", "t", "o", " ", "n", "e", "t", " ", "'">>

\* "' (ID: "
TxtPinId ==
    <<"'", " ", "(", "I", "D", ":", " ">>

\* ") at ("
TxtPinAt ==
    <<")", " ", "a", "t", " ", "(">>

\* ", "
TxtCommaSpace ==
    <<",", " ">>

\* "), rotation "
TxtPinRotation ==
    <<")", ",", " ", "r", "o", "t", "a", "t", "i", "o", "n", " ">>

\* ", symbol "
TxtPinSymbol ==
    <<",", " ", "s", "y", "m", "b", "o", "l", " ">>

\* "Net: "
TxtNetHead ==
    <<"N", "e", "t", ":", " ">>

\* " ("
TxtOpenParen ==
    <<" ", "(">>

\* ")\nConnected components: "
TxtConnected ==
    <<")", "\n", "C", "o", "n", "n", "e", "c", "t", "e", "d", " ", "c",
      "o", "m", "p", "o", "n", "e", "n", "t", "s", ":", " ">>

\* "Component "
TxtComponent ==
    <<"C", "o", "m", "p", "o", "n", "e", "n", "t", " ">>

\* ", Pin "
TxtPin ==
    <<",", " ", "P", "i", "n", " ">>

\* ", Pos ("
TxtPos ==
    <<",", " ", "P", "o", "s", " ", "(">>

\* ","
TxtComma ==
    <<",">>

\* "), Rot "
TxtRot ==
    <<")", ",", " ", "R", "o", "t", " ">>

\* ", Side "
TxtSide ==
    <<",", " ", "S", "i", "d", "e", " ">>

\* "None"
TxtNone ==
    <<"N", "o", "n", "e">>

\* str(int), and the f-string rendering of a value that may be None
DigitChar(d) == CHOOSE c \in Digit : DigitVal[c] = d

RECURSIVE NatStr(_)
NatStr(n) == IF n < 10 THEN <<DigitChar(n)>>
             ELSE Append(NatStr(n \div 10), DigitChar(n % 10))

Str(n) == IF n < 0 THEN <<"-">> \o NatStr(0 - n) ELSE NatStr(n)
FormatInt(v) == IF v = None THEN TxtNone ELSE Str(v[1])
FormatText(v) == IF v = None THEN TxtNone ELSE v[1]

\* sep.join(texts)
RECURSIVE Join(_, _)
Join(texts, sep) ==
    IF texts = <<>> THEN <<>>
    ELSE IF Len(texts) = 1 THEN texts[1]
    ELSE Join(SubSeq(texts, 1, Len(texts) - 1), sep) \o sep \o texts[Len(texts)]

\* f"Pin connected to net '{pin['net_name']}' (ID: {pin['net_id']}) at
\* ({pin['x']}, {pin['y']}), rotation {pin['rotation']}, symbol {pin['symbol_id']}"
PinLine(pin) ==
    TxtPinNet \o pin.net_name \o TxtPinId \o pin.net_id \o TxtPinAt
      \o FormatInt(pin.x) \o TxtCommaSpace \o FormatInt(pin.y) \o TxtPinRotation
      \o FormatInt(pin.rotation) \o TxtPinSymbol \o FormatText(pin.symbol_id)

\* Variant of MetadataChunks: the chunk is emitted for empty metadata too.
MetadataChunks_Always(md) ==
    <<TxtMetadataHead
        \o Join([i \in 1..Len(md) |-> md[i].key \o TxtColon \o md[i].value], TxtNewline)>>

\* if parsed.get("metadata"): snippets.append("Metadata:\n" + "\n".join(...))
MetadataChunks(md) ==
    IF md # <<>>
    THEN <<TxtMetadataHead
             \o Join([i \in 1..Len(md) |-> md[i].key \o TxtColon \o md[i].value],
                     TxtNewline)>>
    ELSE <<>>

\* comp_chunk, for each component in the order of the dict
ComponentChunks(comps) ==
    [i \in 1..Len(comps) |->
        TxtComponentHead \o comps[i].key \o TxtNewline
          \o Join([j \in 1..Len(comps[i].pins) |-> PinLine(comps[i].pins[j])],
                  TxtNewline)]

\* Variant of Connections: each component id is listed once.
RECURSIVE Connections_Distinct(_)
Connections_Distinct(conns) ==
    IF conns = <<>> THEN <<>>
    ELSE LET before == Connections_Distinct(SubSeq(conns, 1, Len(conns) - 1))
             c == conns[Len(conns)]
         IN IF \E j \in 1..Len(before) : before[j] = c THEN before
            ELSE Append(before, c)

\* connections = net_data.get("connections", [])
Connections(conns) == conns

\* net_chunk of the graph model, for each net in the order of the dict
NetChunks(ns) ==
    [i \in 1..Len(ns) |->
        TxtNetHead \o ns[i].key \o TxtOpenParen \o ns[i].name \o TxtConnected
          \o Join(Connections(ns[i].connections), TxtCommaSpace)]

\* Variant of GroupEntry: a record joins the last group only, so that a
\* net met again after another net starts a new group.
GroupEntry_Consecutive(groups, entry) ==
    IF groups # <<>> /\ groups[Len(groups)].key = entry.net
    THEN [groups EXCEPT ![Len(groups)].entries = Append(@, entry)]
    ELSE Append(groups, [key |-> entry.net, entries |-> <<entry>>])

\* net_groups[entry["net"]].append(entry), net_groups being a defaultdict(list)
GroupEntry(groups, entry) ==
    IF DictHas(groups, entry.net)
    THEN [groups EXCEPT ![DictIdx(groups, entry.net)].entries = Append(@, entry)]
    ELSE Append(groups, [key |-> entry.net, entries |-> <<entry>>])

\* the loop "for entry in parsed"
RECURSIVE NetGroups(_)
NetGroups(recs) ==
    IF recs = <<>> THEN <<>>
    ELSE GroupEntry(NetGroups(SubSeq(recs, 1, Len(recs) - 1)), recs[Len(recs)])

\* f"Component {e['component']}, Pin {e['pin']}, Pos ({e['x']},{e['y']}),
\* Rot {e['rotation']}, Side {e['side']}"
EntryLine(e) ==
    TxtComponent \o e.component \o TxtPin \o e.pin \o TxtPos \o Str(e.x)
      \o TxtComma \o Str(e.y) \o TxtRot \o Str(e.rotation) \o TxtSide \o e.side

\* net_chunk of the flat model, for each group in the order of the dict
GroupChunks(groups) ==
    [i \in 1..Len(groups) |->
        TxtNetHead \o groups[i].key \o TxtNewline
          \o Join([j \in 1..Len(groups[i].entries) |-> EntryLine(groups[i].entries[j])],
                  TxtNewline)]

\* The value returned by flatten_netlist(parsed); type is the Python type of
\* parsed.  A dict returned by parse_d356 has the keys components and nets;
\* a list of records holds neither string, so it takes the elif branch.
flatten_netlist(type, parsed) ==
    IF type = "dict"
    THEN MetadataChunks(parsed.metadata) \o ComponentChunks(parsed.components)
           \o NetChunks(parsed.nets)
    ELSE GroupChunks(NetGroups(parsed))

(***************************************************************************)
(* parse_d356 and parse_ipc as functions of the lines of a file that could *)
(* be opened: the loop bodies applied to the lines in order.               *)
(***************************************************************************)
\* the body of the loop of parse_d356 applied to the model built so far,
\* r being what the line was matched as
D356Apply(m, r) ==
    IF r.kind = "prop"
    THEN [m EXCEPT !.metadata = SetMetadata(@, r.key, r.value)]
    ELSE IF r.kind = "net"
    THEN [m EXCEPT !.components = AppendPin(@, r.pin.component, r.pin),
                   !.nets = AddConnection(@, r.pin.net_id, r.pin.net_name,
                                          r.pin.component)]
    ELSE m

D356Step(m, line) == D356Apply(m, D356Table[line])

RECURSIVE parse_d356(_)
parse_d356(f) ==
    IF f = <<>> THEN [metadata |-> <<>>, components |-> <<>>, nets |-> <<>>]
    ELSE D356Step(parse_d356(SubSeq(f, 1, Len(f) - 1)), f[Len(f)])

\* the body of the loop of parse_ipc applied to the records built so far
IpcApply(recs, r) == IF r.kind = "pin" THEN AppendRecord(recs, r.rec) ELSE recs

IpcStep(recs, line) == IpcApply(recs, IpcTable[line])

RECURSIVE parse_ipc(_)
parse_ipc(f) ==
    IF f = <<>> THEN <<>>
    ELSE IpcStep(parse_ipc(SubSeq(f, 1, Len(f) - 1)), f[Len(f)])

(***************************************************************************)
(* flatten_netlist of flask-backend.py (27-67), the copy upload_files      *)
(* calls.  Both copies choose their branch by looking at the value: the    *)
(* keys "components" and "nets" of a dict, then isinstance(parsed, list).  *)
(***************************************************************************)
\* key in parsed: a key of the dict, or an element of the list; the elements
\* of a list of parse_ipc are dicts, which no string is equal to
In(key, type, parsed) ==
    IF type = "dict" THEN key \in DOMAIN parsed
    ELSE \E i \in 1..Len(parsed) : FALSE

\* the branch taken: "graph" (if), "flat" (elif) or "none"
Branch(type, parsed) ==
    IF In("components", type, parsed) /\ In("nets", type, parsed) THEN "graph"
    ELSE IF type = "list" THEN "flat"
    ELSE "none"

\* Variant of flask_flatten_netlist: the copy leaves out the metadata chunk.
flask_flatten_netlist_NoMetadata(type, parsed) ==
    IF Branch(type, parsed) = "graph"
    THEN ComponentChunks(parsed.components) \o NetChunks(parsed.nets)
    ELSE IF Branch(type, parsed) = "flat"
    THEN GroupChunks(NetGroups(parsed))
    ELSE <<>>

flask_flatten_netlist(type, parsed) ==
    IF Branch(type, parsed) = "graph"
    THEN MetadataChunks(parsed.metadata) \o ComponentChunks(parsed.components)
           \o NetChunks(parsed.nets)
    ELSE IF Branch(type, parsed) = "flat"
    THEN GroupChunks(NetGroups(parsed))
    ELSE <<>>

(***************************************************************************)
(* flatten_netlist applied to the model a parser returned.  The model is   *)
(* the result of parse_d356 or parse_ipc on a file of at most MaxLines     *)
(* lines drawn from the lines below.                                       *)
(***************************************************************************)
FlattenD356Lines == {LJob, LU1, LU2, LJobAgain, LRev, LNoRS, LSlashName, LComment}
FlattenIpcLines == {I5V1, I5V2, IGnd, IHeader, ITwoR, ISideTail}

FilesOver(lines) == UNION {[1..n -> lines] : n \in 0..MaxLines}

InitFlatten ==
    /\ pc = "done"
    /\ parser \in {"d356", "ipc"}
    /\ file \in IF parser = "d356" THEN FilesOver(FlattenD356Lines)
                ELSE FilesOver(FlattenIpcLines)
    /\ metadata = IF parser = "d356" THEN parse_d356(file).metadata ELSE <<>>
    /\ components = IF parser = "d356" THEN parse_d356(file).components ELSE <<>>
    /\ nets = IF parser = "d356" THEN parse_d356(file).nets ELSE <<>>
    /\ records = IF parser = "ipc" THEN parse_ipc(file) ELSE <<>>
    /\ result = IF parser = "d356" THEN Some(parse_d356(file)) ELSE Some(parse_ipc(file))
    /\ error = None
    /\ NoCaller
    /\ NoOthers

\* Variant of flatten_graph: the metadata is taken out of the model.
flatten_graph_Consuming ==
    /\ parser = "d356"
    /\ pc = "done"
    /\ pc' = "flattened"
    /\ snippets' = Some(flatten_netlist("dict", result[1]))
    /\ result' = Some([result[1] EXCEPT !.metadata = <<>>])
    /\ UNCHANGED <<parser, file, metadata, components, nets, records, error>>
    /\ UNCHANGED <<caller, paths, idx, processed, response, qa_chain, docVars, otherVars>>

\* flatten_netlist(parsed), parsed being the dict of parse_d356
flatten_graph ==
    /\ parser = "d356"
    /\ pc = "done"
    /\ pc' = "flattened"
    /\ snippets' = Some(flatten_netlist("dict", result[1]))
    /\ UNCHANGED <<parser, file, metadata, components, nets, records, result, error>>
    /\ UNCHANGED <<caller, paths, idx, processed, response, qa_chain, docVars, otherVars>>

\* flatten_netlist(parsed), parsed being the list of parse_ipc
flatten_flat ==
    /\ parser = "ipc"
    /\ pc = "done"
    /\ pc' = "flattened"
    /\ snippets' = Some(flatten_netlist("list", result[1]))
    /\ UNCHANGED <<parser, file, metadata, components, nets, records, result, error>>
    /\ UNCHANGED <<caller, paths, idx, processed, response, qa_chain, docVars, otherVars>>

\* flatten_netlist(parsed) of flask-backend.py, on either model
flask_flatten ==
    /\ pc = "done"
    /\ pc' = "flattened"
    /\ snippets' = Some(flask_flatten_netlist(IF parser = "d356" THEN "dict" ELSE "list",
                                              result[1]))
    /\ UNCHANGED <<parser, file, metadata, components, nets, records, result, error>>
    /\ UNCHANGED <<caller, paths, idx, processed, response, qa_chain, docVars, otherVars>>

NextFlatten ==
    \/ flatten_graph
    \/ flatten_flat
    \/ flask_flatten

SpecFlatten == InitFlatten /\ [][NextFlatten]_vars

\* In Spec, what a parser returns is what the functions above compute.
ParsersAgree ==
    pc = "done" =>
        result = IF parser = "d356" THEN Some(parse_d356(file)) ELSE Some(parse_ipc(file))

(***************************************************************************)
(* Vocabulary of the properties of flatten_netlist.                        *)
(***************************************************************************)
Flattened(p) == parser = p /\ pc = "flattened" /\ result # None /\ snippets # None
\* the records of the flat model whose net is met for the first time
FirstSeen(recs) == {i \in 1..Len(recs) : \A j \in 1..(i - 1) : recs[j].net # recs[i].net}
NthFirstSeen(recs, k) ==
    CHOOSE i \in FirstSeen(recs) : Cardinality({j \in FirstSeen(recs) : j <= i}) = k
RecordsOfNet(recs, net) == SelectSeq(recs, LAMBDA r : r.net = net)
\* 1 when the graph model has metadata, else 0
MetadataOffset(m) == IF m.metadata # <<>> THEN 1 ELSE 0

\* the component ids of the net lines of net id among the first n lines
RECURSIVE NetLineComponents(_, _)
NetLineComponents(n, id) ==
    IF n = 0 THEN <<>>
    ELSE IF IsNetLine(file[n]) /\ NetLineGroup(file[n], 1) = id
         THEN Append(NetLineComponents(n - 1, id), NetLineGroup(file[n], 4))
         ELSE NetLineComponents(n - 1, id)

C13_Chunk5V ==
    <<"N", "e", "t", ":", " ", "5", "V", "\n", "C", "o", "m", "p", "o",
      "n", "e", "n", "t", " ", "U", "1", ",", " ", "P", "i", "n", " ",
      "-", "1", ",", " ", "P", "o", "s", " ", "(", "1", ",", "2", ")",
      ",", " ", "R", "o", "t", " ", "2", "7", "0", ",", " ", "S", "i",
      "d", "e", " ", "0", "\n", "C", "o", "m", "p", "o", "n", "e", "n",
      "t", " ", "U", "2", ",", " ", "P", "i", "n", " ", "2", ",", " ",
      "P", "o", "s", " ", "(", "1", "0", ",", "2", "0", ")", ",", " ",
      "R", "o", "t", " ", "0", ",", " ", "S", "i", "d", "e", " ", "1">>

C13_ChunkGND ==
    <<"N", "e", "t", ":", " ", "G", "N", "D", "\n", "C", "o", "m", "p",
      "o", "n", "e", "n", "t", " ", "U", "1", ",", " ", "P", "i", "n",
      " ", "3", ",", " ", "P", "o", "s", " ", "(", "5", ",", "6", ")",
      ",", " ", "R", "o", "t", " ", "9", "0", ",", " ", "S", "i", "d",
      "e", " ", "0">>

C15_ChunkNet1 ==
    <<"N", "e", "t", ":", " ", "1", " ", "(", "A", ")", "\n", "C", "o",
      "n", "n", "e", "c", "t", "e", "d", " ", "c", "o", "m", "p", "o",
      "n", "e", "n", "t", "s", ":", " ", "U", "1", ",", " ", "U", "1",
      ",", " ", "U", "2">>

C14_ChunkU1 ==
    <<"C", "o", "m", "p", "o", "n", "e", "n", "t", ":", " ", "U", "1",
      "\n", "P", "i", "n", " ", "c", "o", "n", "n", "e", "c", "t", "e",
      "d", " ", "t", "o", " ", "n", "e", "t", " ", "'", "A", "'", " ",
      "(", "I", "D", ":", " ", "1", ")", " ", "a", "t", " ", "(", "1",
      "0", "0", ",", " ", "2", "0", "0", ")", ",", " ", "r", "o", "t",
      "a", "t", "i", "o", "n", " ", "9", "0", ",", " ", "s", "y", "m",
      "b", "o", "l", " ", "0", "1">>

C14_ChunkMetadata ==
    <<"M", "e", "t", "a", "d", "a", "t", "a", ":", "\n", "J", "O", "B",
      ":", " ", "t", "e", "s", "t", "b", "o", "a", "r", "d">>

(***************************************************************************)
(* C13: on a flat model flatten_netlist emits exactly one chunk per        *)
(* distinct net, in the order in which the nets first appear, and the      *)
(* chunk of a net lists every record of that net once, in file order; two  *)
(* pins on 5V around one pin on GND give the two chunks of the example.    *)
(***************************************************************************)
C13_ChunkOf(recs, net) ==
    LET rs == RecordsOfNet(recs, net)
    IN TxtNetHead \o net \o TxtNewline
         \o Join([j \in 1..Len(rs) |-> EntryLine(rs[j])], TxtNewline)

C13_OneChunkPerNet ==
    Flattened("ipc") =>
        LET recs == result[1]
            chunks == snippets[1]
        IN /\ Len(chunks) = Cardinality(FirstSeen(recs))
           /\ \A k \in 1..Len(chunks) :
                chunks[k] = C13_ChunkOf(recs, recs[NthFirstSeen(recs, k)].net)
           /\ file = <<I5V1, IGnd, I5V2>> => chunks = <<C13_Chunk5V, C13_ChunkGND>>

C13_Witness ==
    /\ Flattened("ipc")
    /\ file = <<I5V1, IGnd, I5V2>>
    /\ Len(result[1]) = 3
    /\ Len(snippets[1]) = 2

(***************************************************************************)
(* C14: on a graph model flatten_netlist emits first the metadata chunk,   *)
(* only when metadata is not empty, then one chunk per component in the    *)
(* order of the component map, then one chunk per net in the order of the  *)
(* net map: |components| + |nets| chunks, and one more with metadata.      *)
(***************************************************************************)
C14_ChunkOrder ==
    Flattened("d356") =>
        LET m == result[1]
            chunks == snippets[1]
            off == MetadataOffset(m)
            nc == Len(m.components)
        IN /\ Len(chunks) = nc + Len(m.nets) + off
           /\ off = 1 => StartsWith(chunks[1], TxtMetadataHead)
           /\ \A i \in 1..nc :
                StartsWith(chunks[off + i],
                           TxtComponentHead \o m.components[i].key \o TxtNewline)
           /\ \A j \in 1..Len(m.nets) :
                StartsWith(chunks[off + nc + j],
                           TxtNetHead \o m.nets[j].key \o TxtOpenParen)
           /\ file = <<LJob, LU1, LU2>>
                => chunks[1] = C14_ChunkMetadata /\ chunks[2] = C14_ChunkU1

C14_Witness ==
    /\ Flattened("d356")
    /\ file = <<LJob, LU1, LU2>>
    /\ Len(snippets[1]) = 4

(***************************************************************************)
(* C15: a component with k net lines on one net is held k times in the     *)
(* connections of that net, in file order, and the chunk of the net lists  *)
(* all k occurrences in that order: connections are neither deduplicated   *)
(* nor reordered.                                                          *)
(***************************************************************************)
C15_ConnectionsKept ==
    Flattened("d356") =>
        LET m == result[1]
            chunks == snippets[1]
            first == MetadataOffset(m) + Len(m.components)
        IN \A j \in 1..Len(m.nets) :
             LET conns == NetLineComponents(Len(file), m.nets[j].key)
             IN /\ m.nets[j].connections = conns
                /\ chunks[first + j] =
                     TxtNetHead \o m.nets[j].key \o TxtOpenParen \o m.nets[j].name
                       \o TxtConnected \o Join(conns, TxtCommaSpace)

C15_Witness ==
    /\ Flattened("d356")
    /\ file = <<LU1, LU1, LU2>>
    /\ result[1].nets[1].connections = <<TU1, TU1, TU2>>
    /\ snippets[1][3] = C15_ChunkNet1

(***************************************************************************)
(* C17: flatten_netlist does not modify the model it is given: metadata,   *)
(* the pins of every component, the name and connections of every net, or  *)
(* the records of a flat model are after the call what they were before    *)
(* it, and no key has been added.                                          *)
(***************************************************************************)
C17_FlattenStep ==
    (pc = "done" /\ pc' = "flattened") =>
        /\ result' = result
        /\ metadata' = metadata
        /\ components' = components
        /\ nets' = nets
        /\ records' = records

C17_ModelUnchanged == [][C17_FlattenStep]_vars

C17_Witness ==
    /\ Flattened("d356")
    /\ file = <<LRev, LSlashName, LU1>>
    /\ Len(result[1].metadata) = 1
    /\ Len(result[1].components) = 2
    /\ Len(result[1].nets) = 2
    /\ Len(snippets[1]) = 5

(***************************************************************************)
(* C20: when open fails, parse_d356 and parse_ipc let the error of open    *)
(* reach the caller as it is and return no model, neither an empty nor a   *)
(* partial one; nothing is read, and the open is not tried again: the call *)
(* takes no further step.                                                  *)
(***************************************************************************)
C20_OpenStep ==
    /\ (pc = "start" /\ pc' # "reading")
          => /\ pc' = "raised"
             /\ error' # None
             /\ error'[1] \in OpenErrors
             /\ result' = None
             /\ file' = <<>>
             /\ metadata' = <<>> /\ components' = <<>> /\ nets' = <<>>
             /\ records' = <<>>
    \* no step is taken once the error has left the function
    /\ pc # "raised"

C20_OpenFailurePropagates == [][C20_OpenStep]_vars

C20_Witness ==
    /\ parser = "ipc"
    /\ pc = "raised"
    /\ error = Some("PermissionError")
    /\ result = None
    /\ records = <<>>

(***************************************************************************)
(* The callers of the parsers: build_pipeline (netlist_parser.py), which   *)
(* chooses the parser in parse_netlist, and upload_files                   *)
(* (flask-backend.py), which chooses it from the extension of each file.   *)
(* Extensions, the type names of files_processed, file paths and the       *)
(* contents of text files and of the paragraphs of Word files:             *)
(***************************************************************************)
\* ".d356"
ExtD356 ==
    <<".", "d", "3", "5", "6">>

\* ".ipc"
ExtIpc ==
    <<".", "i", "p", "c">>

\* ".docx"
ExtDocx ==
    <<".", "d", "o", "c", "x">>

\* "d356"
TypeD356 ==
    <<"d", "3", "5", "6">>

\* "ipc(parsed)"
TypeIpcParsed ==
    <<"i", "p", "c", "(", "p", "a", "r", "s", "e", "d", ")">>

\* "docx"
TypeDocx ==
    <<"d", "o", "c", "x">>

\* "unknown"
TypeUnknown ==
    <<"u", "n", "k", "n", "o", "w", "n">>

\* "a.d356"
PathD356 ==
    <<"a", ".", "d", "3", "5", "6">>

\* "a.D356"
PathD356Upper ==
    <<"a", ".", "D", "3", "5", "6">>

\* "t/b.ipc"
PathIpc ==
    <<"t", "/", "b", ".", "i", "p", "c">>

\* "b.Ipc"
PathIpcMixed ==
    <<"b", ".", "I", "p", "c">>

\* "n.txt"
PathTxt ==
    <<"n", ".", "t", "x", "t">>

\* "README"
PathNoExt ==
    <<"R", "E", "A", "D", "M", "E">>

\* "r.docx"
PathDocx ==
    <<"r", ".", "d", "o", "c", "x">>

\* "  "
TextBlank ==
    <<" ", " ">>

\* "hi"
TextNotes ==
    <<"h", "i">>

\* " "
ParaBlank ==
    <<" ">>

\* "HW"
ParaHW ==
    <<"H", "W">>

\* "SW"
ParaSW ==
    <<"S", "W">>

\* str.endswith
EndsWith(s, suffix) ==
    /\ Len(s) >= Len(suffix)
    /\ SubSeq(s, Len(s) - Len(suffix) + 1, Len(s)) = suffix

\* str.lower
UpperLetters ==
    <<"A", "B", "C", "D", "E", "F", "G", "H", "I", "J", "K", "L", "M", "N", "O", "P",
      "Q", "R", "S", "T", "U", "V", "W", "X", "Y", "Z">>
LowerLetters ==
    <<"a", "b", "c", "d", "e", "f", "g", "h", "i", "j", "k", "l", "m", "n", "o", "p",
      "q", "r", "s", "t", "u", "v", "w", "x", "y", "z">>
LowerChar(c) ==
    IF \E i \in 1..Len(UpperLetters) : UpperLetters[i] = c
    THEN LowerLetters[CHOOSE i \in 1..Len(UpperLetters) : UpperLetters[i] = c]
    ELSE c
ToLower(s) == [i \in 1..Len(s) |-> LowerChar(s[i])]

\* os.path.basename: the text after the last "/"
BaseName(p) ==
    LET seps == {i \in 1..Len(p) : p[i] = "/"}
    IN IF seps = {} THEN p ELSE SubSeq(p, Max(seps) + 1, Len(p))

\* os.path.splitext(name)[1]: the text from the last "." on, empty when the
\* name has no "." or only "." before it
SplitExt(name) ==
    LET dots == {i \in 1..Len(name) : name[i] = "."}
    IN IF dots = {} THEN <<>>
       ELSE IF \E k \in 1..(Max(dots) - 1) : name[k] # "."
       THEN SubSeq(name, Max(dots), Len(name))
       ELSE <<>>

Paths == {PathD356, PathD356Upper, PathIpc, PathIpcMixed, PathTxt, PathNoExt, PathDocx}

\* what the files hold: lines of netlists, the text of a text file, the
\* paragraphs of a Word file
PipelineD356Files == {<<>>, <<LJob, LU1, LU2>>}
PipelineIpcFiles == {<<>>, <<I5V1, IGnd, I5V2>>}
TextFiles == {<<>>, TextBlank, TextNotes}
DocxFiles == {<<>>, <<ParaBlank>>, <<ParaHW, <<>>, ParaSW>>}
\* the exception Document(path) raises on a file that is no Word file
DocxErrors == {"PackageNotFoundError"}

\* "\n".join(p.text for p in d.paragraphs if p.text.strip())
DocText(paragraphs) ==
    Join(SelectSeq(paragraphs, LAMBDA t : Strip(t) # <<>>), TxtNewline)

\* MaxFiles bounds the number of files of one /upload request.
MaxFiles == 2
\* MaxDocs bounds the number of Word files given to build_pipeline as
\* extra_docs; each is given by the paragraphs it holds.
MaxDocs == 2

InitPipeline ==
    /\ caller \in {"build_pipeline", "upload_files"}
    /\ paths \in IF caller = "build_pipeline" THEN {<<p>> : p \in Paths}
                 ELSE UNION {[1..n -> Paths] : n \in 1..MaxFiles}
    /\ pc = IF caller = "build_pipeline" THEN "parse_netlist" ELSE "upload_loop"
    /\ snippets = IF caller = "build_pipeline" THEN None ELSE Some(<<>>)
    /\ idx = 0
    /\ processed = <<>>
    /\ response = None
    /\ qa_chain = None
    /\ extra_docs \in IF caller = "build_pipeline"
                      THEN UNION {[1..n -> DocxFiles] : n \in 0..MaxDocs}
                      ELSE {<<>>}
    /\ doc_idx = 0
    /\ NoOthers
    /\ error = None
    /\ parser = "none"
    /\ file = <<>>
    /\ metadata = <<>>
    /\ components = <<>>
    /\ nets = <<>>
    /\ records = <<>>
    /\ result = None

\* the variables of a parser's own run, which the callers do not see
parserLocals == <<metadata, components, nets, records>>

(***************************************************************************)
(* build_pipeline, from parse_netlist to flatten_netlist.                  *)
(***************************************************************************)
\* parse_netlist: file_path.endswith(".d356"), so parse_d356 is called
parse_netlist_d356 ==
    /\ caller = "build_pipeline"
    /\ pc = "parse_netlist"
    /\ EndsWith(paths[1], ExtD356)
    /\ parser' = "d356"
    /\ idx' = 1
    /\ \/ \E f \in PipelineD356Files :
            /\ file' = f
            /\ result' = Some(parse_d356(f))
            /\ pc' = "parsed"
            /\ error' = error
       \/ \E e \in OpenErrors :
            /\ error' = Some(e)
            /\ pc' = "raised"
            /\ UNCHANGED <<file, result>>
    /\ UNCHANGED <<parserLocals, snippets, caller, paths, processed, response, qa_chain>>
    /\ UNCHANGED <<docVars, otherVars>>

\* parse_netlist: file_path.endswith(".ipc"), so parse_ipc is called
parse_netlist_ipc ==
    /\ caller = "build_pipeline"
    /\ pc = "parse_netlist"
    /\ ~EndsWith(paths[1], ExtD356)
    /\ EndsWith(paths[1], ExtIpc)
    /\ parser' = "ipc"
    /\ idx' = 1
    /\ \/ \E f \in PipelineIpcFiles :
            /\ file' = f
            /\ result' = Some(parse_ipc(f))
            /\ pc' = "parsed"
            /\ error' = error
       \/ \E e \in OpenErrors :
            /\ error' = Some(e)
            /\ pc' = "raised"
            /\ UNCHANGED <<file, result>>
    /\ UNCHANGED <<parserLocals, snippets, caller, paths, processed, response, qa_chain>>
    /\ UNCHANGED <<docVars, otherVars>>

\* parse_netlist: neither branch is taken and the function returns None
parse_netlist_neither ==
    /\ caller = "build_pipeline"
    /\ pc = "parse_netlist"
    /\ ~EndsWith(paths[1], ExtD356)
    /\ ~EndsWith(paths[1], ExtIpc)
    /\ parser' = "none"
    /\ idx' = 1
    /\ result' = None
    /\ pc' = "parsed"
    /\ UNCHANGED <<file, error, parserLocals, snippets, caller, paths, processed,
                   response, qa_chain>>
    /\ UNCHANGED <<docVars, otherVars>>

\* snippets = flatten_netlist(parsed), parsed being a dict or a list
build_pipeline_flatten ==
    /\ caller = "build_pipeline"
    /\ pc = "parsed"
    /\ parser # "none"
    /\ snippets' = Some(flatten_netlist(IF parser = "d356" THEN "dict" ELSE "list",
                                        result[1]))
    /\ pc' = "flattened"
    /\ UNCHANGED <<parser, file, result, error, parserLocals, caller, paths, idx,
                   processed, response, qa_chain>>
    /\ UNCHANGED <<docVars, otherVars>>

\* snippets = flatten_netlist(None): "components" in None raises TypeError
build_pipeline_flatten_raises ==
    /\ caller = "build_pipeline"
    /\ pc = "parsed"
    /\ parser = "none"
    /\ error' = Some("TypeError")
    /\ pc' = "raised"
    /\ UNCHANGED <<parser, file, result, parserLocals, snippets, caller, paths, idx,
                   processed, response, qa_chain>>
    /\ UNCHANGED <<docVars, otherVars>>

\* one iteration of "for doc_path in extra_docs": the text of the non-blank
\* paragraphs is appended, whatever it is; Document raises on a file that is
\* no Word file
build_pipeline_doc ==
    /\ caller = "build_pipeline"
    /\ pc = "flattened"
    /\ doc_idx < Len(extra_docs)
    /\ doc_idx' = doc_idx + 1
    /\ \/ /\ snippets' = Some(Append(snippets[1], DocText(extra_docs[doc_idx + 1])))
          /\ UNCHANGED <<pc, error>>
       \/ \E e \in DocxErrors :
            /\ error' = Some(e)
            /\ pc' = "raised"
            /\ UNCHANGED snippets
    /\ UNCHANGED <<parser, file, result, parserLocals, caller, paths, idx,
                   processed, response, qa_chain, extra_docs, otherVars>>

\* after the loop: the embeddings, the vector store and the chain are built
\* and the chain is returned
build_pipeline_index ==
    /\ caller = "build_pipeline"
    /\ pc = "flattened"
    /\ doc_idx = Len(extra_docs)
    /\ pc' = "returned"
    /\ UNCHANGED <<parser, file, result, error, parserLocals, snippets, caller, paths,
                   idx, processed, response, qa_chain, docVars, otherVars>>

\* after the loop: a library call raises
build_pipeline_index_raises ==
    /\ caller = "build_pipeline"
    /\ pc = "flattened"
    /\ doc_idx = Len(extra_docs)
    /\ error' = Some("Exception")
    /\ pc' = "raised"
    /\ UNCHANGED <<parser, file, result, parserLocals, snippets, caller, paths,
                   idx, processed, response, qa_chain, docVars, otherVars>>

(***************************************************************************)
(* upload_files, after the paths are resolved: one iteration of the loop   *)
(* over the entries for each file, then the response.                      *)
(***************************************************************************)
\* name = os.path.basename(path); ext = os.path.splitext(name)[1].lower()
EntryName == BaseName(paths[idx + 1])
EntryExt == ToLower(SplitExt(EntryName))
\* processed.append({...}); the type of a failed entry is ext or "unknown"
Entry(type, status, added) ==
    [file |-> EntryName, type |-> type, status |-> status, snippets_added |-> added]
ExtOrUnknown == IF EntryExt = <<>> THEN TypeUnknown ELSE EntryExt
InLoop == caller = "upload_files" /\ pc = "upload_loop" /\ idx < Len(paths)

\* ext == ".d356": parse_d356, flatten_netlist; an exception is recorded
upload_d356 ==
    /\ InLoop
    /\ EntryExt = ExtD356
    /\ parser' = "d356"
    /\ idx' = idx + 1
    /\ \/ \E f \in PipelineD356Files :
            /\ file' = f
            /\ result' = Some(parse_d356(f))
            /\ snippets' = Some(snippets[1] \o flask_flatten_netlist("dict", parse_d356(f)))
            /\ processed' = Append(processed, Entry(TypeD356, "ok", "netlist"))
       \/ \E e \in OpenErrors :
            /\ processed' = Append(processed, Entry(ExtOrUnknown, "error", "0"))
            /\ UNCHANGED <<file, result, snippets>>
    /\ UNCHANGED <<pc, error, parserLocals, caller, paths, response, qa_chain>>
    /\ UNCHANGED <<docVars, otherVars>>

\* ext == ".ipc": parse_ipc, flatten_netlist; an exception is recorded
upload_ipc ==
    /\ InLoop
    /\ EntryExt = ExtIpc
    /\ parser' = "ipc"
    /\ idx' = idx + 1
    /\ \/ \E f \in PipelineIpcFiles :
            /\ file' = f
            /\ result' = Some(parse_ipc(f))
            /\ snippets' = Some(snippets[1] \o flask_flatten_netlist("list", parse_ipc(f)))
            /\ processed' = Append(processed, Entry(TypeIpcParsed, "ok", "netlist"))
       \/ \E e \in OpenErrors :
            /\ processed' = Append(processed, Entry(ExtOrUnknown, "error", "0"))
            /\ UNCHANGED <<file, result, snippets>>
    /\ UNCHANGED <<pc, error, parserLocals, caller, paths, response, qa_chain>>
    /\ UNCHANGED <<docVars, otherVars>>

\* Variant of upload_docx: the exception of Document leaves the handler, no
\* entry is recorded and the remaining files are not handled.
upload_docx_Abort ==
    /\ InLoop
    /\ EntryExt = ExtDocx
    /\ parser' = "none"
    /\ idx' = idx + 1
    /\ \/ \E d \in DocxFiles :
            /\ snippets' = IF Strip(DocText(d)) # <<>>
                           THEN Some(Append(snippets[1], DocText(d)))
                           ELSE snippets
            /\ processed' = Append(processed, Entry(TypeDocx, "ok", "text"))
            /\ UNCHANGED <<pc, error>>
       \/ \E e \in DocxErrors :
            /\ error' = Some(e)
            /\ pc' = "raised"
            /\ UNCHANGED <<snippets, processed>>
    /\ UNCHANGED <<file, result, parserLocals, caller, paths, response, qa_chain>>
    /\ UNCHANGED <<docVars, otherVars>>

\* ext == ".docx": the non-blank paragraphs, added when there is any text
upload_docx ==
    /\ InLoop
    /\ EntryExt = ExtDocx
    /\ parser' = "none"
    /\ idx' = idx + 1
    /\ \/ \E d \in DocxFiles :
            /\ snippets' = IF Strip(DocText(d)) # <<>>
                           THEN Some(Append(snippets[1], DocText(d)))
                           ELSE snippets
            /\ processed' = Append(processed, Entry(TypeDocx, "ok", "text"))
       \/ \E e \in DocxErrors :
            /\ processed' = Append(processed, Entry(ExtOrUnknown, "error", "0"))
            /\ UNCHANGED snippets
    /\ UNCHANGED <<pc, file, result, error, parserLocals, caller, paths, response,
                   qa_chain>>
    /\ UNCHANGED <<docVars, otherVars>>

\* any other extension: the generic text fallback
upload_text ==
    /\ InLoop
    /\ EntryExt \notin {ExtD356, ExtIpc, ExtDocx}
    /\ parser' = "none"
    /\ idx' = idx + 1
    /\ \/ \E txt \in TextFiles :
            /\ snippets' = IF Strip(txt) # <<>> THEN Some(Append(snippets[1], txt))
                           ELSE snippets
            /\ processed' = Append(processed, Entry(ExtOrUnknown, "ok", "text"))
       \/ \E e \in OpenErrors :
            /\ processed' = Append(processed, Entry(ExtOrUnknown, "skipped", "0"))
            /\ UNCHANGED snippets
    /\ UNCHANGED <<pc, file, result, error, parserLocals, caller, paths, response,
                   qa_chain>>
    /\ UNCHANGED <<docVars, otherVars>>

AfterLoop == caller = "upload_files" /\ pc = "upload_loop" /\ idx = Len(paths)

\* if not snippets: the answer is 400 "no_content"
upload_no_content ==
    /\ AfterLoop
    /\ snippets[1] = <<>>
    /\ response' = Some([status |-> "no_content", code |-> 400,
                         files_processed |-> processed, snippets_count |-> 0])
    /\ pc' = "responded"
    /\ UNCHANGED <<parser, file, result, error, parserLocals, snippets, caller, paths,
                   idx, processed, qa_chain>>
    /\ UNCHANGED <<docVars, otherVars>>

\* the vector store and the chain are built over the snippets: qa_chain is
\* replaced and the answer is "ok"
upload_index ==
    /\ AfterLoop
    /\ snippets[1] # <<>>
    /\ qa_chain' = Some(snippets[1])
    /\ response' = Some([status |-> "ok", code |-> 200,
                         files_processed |-> processed,
                         snippets_count |-> Len(snippets[1])])
    /\ pc' = "responded"
    /\ UNCHANGED <<parser, file, result, error, parserLocals, snippets, caller, paths,
                   idx, processed>>
    /\ UNCHANGED <<docVars, otherVars>>

\* building the embeddings, the vector store or the model raises
upload_index_raises ==
    /\ AfterLoop
    /\ snippets[1] # <<>>
    /\ error' = Some("Exception")
    /\ pc' = "raised"
    /\ UNCHANGED <<parser, file, result, parserLocals, snippets, caller, paths, idx,
                   processed, response, qa_chain>>
    /\ UNCHANGED <<docVars, otherVars>>

NextPipeline ==
    \/ parse_netlist_d356
    \/ parse_netlist_ipc
    \/ parse_netlist_neither
    \/ build_pipeline_flatten
    \/ build_pipeline_flatten_raises
    \/ build_pipeline_doc
    \/ build_pipeline_index
    \/ build_pipeline_index_raises
    \/ upload_d356
    \/ upload_ipc
    \/ upload_docx
    \/ upload_text
    \/ upload_no_content
    \/ upload_index
    \/ upload_index_raises

SpecPipeline == InitPipeline /\ [][NextPipeline]_vars

(***************************************************************************)
(* The format of a path by its extension, compared without regard to       *)
(* letter case: the parser of the graph format, of the flat format, or     *)
(* none.                                                                   *)
(***************************************************************************)
FormatOf(path) ==
    LET ext == ToLower(SplitExt(BaseName(path)))
    IN IF ext = ExtD356 THEN "d356" ELSE IF ext = ExtIpc THEN "ipc" ELSE "none"
\* the path whose format was last detected
Detected == caller # "none" /\ idx >= 1

(***************************************************************************)
(* C18: format detection depends only on the extension of the path,        *)
(* compared without regard to letter case: the parser chosen for a path is *)
(* the one of its lower-cased extension, so '.d356' and '.D356', '.ipc'    *)
(* and '.Ipc' are treated alike; the outcome is always the graph parser,   *)
(* the flat parser or neither, whatever the file holds.                    *)
(***************************************************************************)
C18_CaseInsensitive ==
    Detected =>
        /\ parser \in {"d356", "ipc", "none"}
        /\ parser = FormatOf(paths[idx])

(***************************************************************************)
(* C19: for a path whose extension is that of neither format, no parser is *)
(* called and the caller goes on without failing: build_pipeline does not  *)
(* raise, and upload_files records the file with the type and status of    *)
(* the generic text fallback.                                              *)
(***************************************************************************)
C19_UnknownFallsBack ==
    (Detected /\ FormatOf(paths[idx]) = "none"
       /\ ToLower(SplitExt(BaseName(paths[idx]))) # ExtDocx) =>
        /\ parser = "none"
        /\ caller = "build_pipeline" => pc # "raised"
        /\ caller = "upload_files" => processed[idx].status \in {"ok", "skipped"}

(***************************************************************************)
(* C29: in parse_d356 the name held for a net id is the net-name text of   *)
(* the last net line read with that id: net lines with the same leading    *)
(* digits and different name suffixes make one net, whose name each later  *)
(* line overwrites and whose connections take the component of every one   *)
(* of these lines.                                                         *)
(***************************************************************************)
C29_LinesOfNet(id) ==
    {i \in 1..Len(file) : IsNetLine(file[i]) /\ NetLineGroup(file[i], 1) = id}

C29_LastNameWins ==
    parser = "d356" =>
        /\ \A j, k \in 1..Len(nets) : nets[j].key = nets[k].key => j = k
        /\ \A j \in 1..Len(nets) :
             LET ls == C29_LinesOfNet(nets[j].key)
             IN /\ ls # {}
                /\ nets[j].name = NetLineGroup(file[Max(ls)], 2)
                /\ nets[j].connections = NetLineComponents(Len(file), nets[j].key)
        /\ pc = "done" => result[1].nets = nets

C29_Witness ==
    /\ parser = "d356"
    /\ pc = "done"
    /\ file = <<LU1, LU2, LGapXY>>
    /\ Len(result[1].nets) = 1
    /\ result[1].nets[1].name = <<"B">>
    /\ result[1].nets[1].connections = <<TU1, TU2, TU1>>

(***************************************************************************)
(* The generated Word document (flask-backend.py, create_docx_bytes): the  *)
(* fixed texts of the document, the times of the clock, and the texts and  *)
(* original contents it is called with.                                    *)
(***************************************************************************)
\* "AI-Generated Document"
TxtTitle ==
    <<"A", "I", "-", "G", "e", "n", "e", "r", "a", "t", "e", "d", " ",
      "D", "o", "c", "u", "m", "e", "n", "t">>

\* "AI-Generated"
TxtMarker ==
    <<"A", "I", "-", "G", "e", "n", "e", "r", "a", "t", "e", "d">>

\* "Original Input Content"
TxtOriginalHead ==
    <<"O", "r", "i", "g", "i", "n", "a", "l", " ", "I", "n", "p", "u",
      "t", " ", "C", "o", "n", "t", "e", "n", "t">>

\* "The following is the original content that was processed:"
TxtOriginalIntro ==
    <<"T", "h", "e", " ", "f", "o", "l", "l", "o", "w", "i", "n", "g",
      " ", "i", "s", " ", "t", "h", "e", " ", "o", "r", "i", "g", "i",
      "n", "a", "l", " ", "c", "o", "n", "t", "e", "n", "t", " ", "t",
      "h", "a", "t", " ", "w", "a", "s", " ", "p", "r", "o", "c", "e",
      "s", "s", "e", "d", ":">>

\* "AI Analysis & Processing Results"
TxtResultsHead ==
    <<"A", "I", " ", "A", "n", "a", "l", "y", "s", "i", "s", " ", "&",
      " ", "P", "r", "o", "c", "e", "s", "s", "i", "n", "g", " ", "R",
      "e", "s", "u", "l", "t", "s">>

\* "Document Information"
TxtInfoHead ==
    <<"D", "o", "c", "u", "m", "e", "n", "t", " ", "I", "n", "f", "o",
      "r", "m", "a", "t", "i", "o", "n">>

\* "Generated on: "
TxtGeneratedOn ==
    <<"G", "e", "n", "e", "r", "a", "t", "e", "d", " ", "o", "n", ":",
      " ">>

\* "Content length: "
TxtContentLength ==
    <<"C", "o", "n", "t", "e", "n", "t", " ", "l", "e", "n", "g", "t",
      "h", ":", " ">>

\* " characters"
TxtCharacters ==
    <<" ", "c", "h", "a", "r", "a", "c", "t", "e", "r", "s">>

\* "Word count: "
TxtWordCount ==
    <<"W", "o", "r", "d", " ", "c", "o", "u", "n", "t", ":", " ">>

\* " words"
TxtWords ==
    <<" ", "w", "o", "r", "d", "s">>

\* "Original content length: "
TxtOriginalLength ==
    <<"O", "r", "i", "g", "i", "n", "a", "l", " ", "c", "o", "n", "t",
      "e", "n", "t", " ", "l", "e", "n", "g", "t", "h", ":", " ">>

\* "Original word count: "
TxtOriginalWordCount ==
    <<"O", "r", "i", "g", "i", "n", "a", "l", " ", "w", "o", "r", "d",
      " ", "c", "o", "u", "n", "t", ":", " ">>

\* "\r\n"
TxtCrLf ==
    <<"\r", "\n">>

\* "\r"
TxtCr ==
    <<"\r">>

\* "\n\n"
TxtBlankLine ==
    <<"\n", "\n">>

\* "2025-01-01 12:00:00"
TimeNoon ==
    <<"2", "0", "2", "5", "-", "0", "1", "-", "0", "1", " ", "1", "2",
      ":", "0", "0", ":", "0", "0">>

\* "2025-01-01 12:00:01"
TimeLater ==
    <<"2", "0", "2", "5", "-", "0", "1", "-", "0", "1", " ", "1", "2",
      ":", "0", "0", ":", "0", "1">>

\* "A"
GenOne ==
    <<"A">>

\* "A\n\nB"
GenTwo ==
    <<"A", "\n", "\n", "B">>

\* "A\n\nA"
GenTwice ==
    <<"A", "\n", "\n", "A">>

\* "B\n\nA"
GenSwapped ==
    <<"B", "\n", "\n", "A">>

\* " A \n\n\n\n B"
GenPadded ==
    <<" ", "A", " ", "\n", "\n", "\n", "\n", " ", "B">>

\* "A\r\n\r\nB"
GenCrLf ==
    <<"A", "\r", "\n", "\r", "\n", "B">>

\* "A\nB"
GenOneBreak ==
    <<"A", "\n", "B">>

\* "A\n\n\nB"
GenThreeBreaks ==
    <<"A", "\n", "\n", "\n", "B">>

\* "A B\n\n \n\nA"
GenBlankBlock ==
    <<"A", " ", "B", "\n", "\n", " ", "\n", "\n", "A">>

\* "X"
OrigOne ==
    <<"X">>

\* "X\n\nY "
OrigLines ==
    <<"X", "\n", "\n", "Y", " ">>

\* "Y\nX\nX"
OrigRepeat ==
    <<"Y", "\n", "X", "\n", "X">>


GenTexts ==
    {<<>>, GenOne, GenTwo, GenTwice, GenSwapped, GenPadded, GenCrLf, GenOneBreak,
     GenThreeBreaks, GenBlankBlock}
Originals == {None, Some(<<>>), Some(OrigOne), Some(OrigLines), Some(OrigRepeat)}
Clock == {TimeNoon, TimeLater}

\* "─" * 50: the character U+2500, RuleWidth times
RuleWidth == 50
Rule == [i \in 1..RuleWidth |-> "U+2500"]

\* s.replace(old, new)
RECURSIVE Replace(_, _, _)
Replace(s, old, new) ==
    IF Len(s) < Len(old) THEN s
    ELSE IF StartsWith(s, old)
    THEN new \o Replace(SubSeq(s, Len(old) + 1, Len(s)), old, new)
    ELSE <<s[1]>> \o Replace(Tail(s), old, new)

\* text.replace("\r\n", "\n").replace("\r", "\n")
NormalizeNewlines(s) == Replace(Replace(s, TxtCrLf, TxtNewline), TxtCr, TxtNewline)

\* s.split(sep)
RECURSIVE Split(_, _)
Split(s, sep) ==
    LET at == {i \in 1..(Len(s) - Len(sep) + 1) : SubSeq(s, i, i + Len(sep) - 1) = sep}
    IN IF at = {} THEN <<s>>
       ELSE <<SubSeq(s, 1, Min(at) - 1)>>
              \o Split(SubSeq(s, Min(at) + Len(sep), Len(s)), sep)

\* s.strip()
Whitespace == {" ", "\t", "\n", "\r"}
StripWs(s) ==
    LET keep == {i \in 1..Len(s) : s[i] \notin Whitespace}
    IN IF keep = {} THEN <<>> ELSE SubSeq(s, Min(keep), Max(keep))

\* len(s.split())
WordCount(s) ==
    Cardinality({i \in 1..Len(s) :
                    s[i] \notin Whitespace /\ (i = 1 \/ s[i - 1] \in Whitespace)})

\* [f(p) for p in pieces if p.strip()], f being strip
RECURSIVE StrippedNonBlank(_)
StrippedNonBlank(pieces) ==
    IF pieces = <<>> THEN <<>>
    ELSE IF StripWs(Head(pieces)) = <<>> THEN StrippedNonBlank(Tail(pieces))
    ELSE <<StripWs(Head(pieces))>> \o StrippedNonBlank(Tail(pieces))

\* Variant of Blocks: a block that has already been added is left out.
RECURSIVE Distinct(_)
Distinct(ts) ==
    IF ts = <<>> THEN <<>>
    ELSE LET before == Distinct(SubSeq(ts, 1, Len(ts) - 1))
         IN IF \E j \in 1..Len(before) : before[j] = ts[Len(ts)] THEN before
            ELSE Append(before, ts[Len(ts)])
Blocks_Distinct(text) == Distinct(StrippedNonBlank(Split(text, TxtBlankLine)))

\* [p.strip() for p in text.split("\n\n") if p.strip()]
Blocks(text) == StrippedNonBlank(Split(text, TxtBlankLine))

\* doc.add_heading(t, level), doc.add_paragraph(t)
Heading(t, level) == [style |-> IF level = 0 THEN "Title" ELSE "Heading", text |-> t]
Paragraph(t) == [style |-> "Normal", text |-> t]
Paragraphs(ts) == [i \in 1..Len(ts) |-> Paragraph(ts[i])]

\* create_docx_bytes(text, original_content): the paragraphs of the document
create_docx_bytes(text0, original0, now) ==
    LET text == NormalizeNewlines(text0)
        original_content == IF original0 = None THEN None
                            ELSE Some(NormalizeNewlines(original0[1]))
        given == original_content # None /\ original_content[1] # <<>>
    IN <<Heading(TxtTitle, 0)>>
       \o (IF given
           THEN <<Heading(TxtOriginalHead, 1), Paragraph(TxtOriginalIntro), Paragraph(Rule)>>
                  \o Paragraphs(StrippedNonBlank(Split(original_content[1], TxtNewline)))
                  \o <<Paragraph(Rule), Paragraph(<<>>)>>
           ELSE <<>>)
       \o <<Heading(TxtResultsHead, 1)>>
       \o Paragraphs(Blocks(text))
       \o <<Heading(TxtInfoHead, 1),
            Paragraph(TxtGeneratedOn \o now),
            Paragraph(TxtContentLength \o NatStr(Len(text)) \o TxtCharacters),
            Paragraph(TxtWordCount \o NatStr(WordCount(text)) \o TxtWords)>>
       \o (IF given
           THEN <<Paragraph(TxtOriginalLength \o NatStr(Len(original_content[1]))
                              \o TxtCharacters),
                  Paragraph(TxtOriginalWordCount \o NatStr(WordCount(original_content[1]))
                              \o TxtWords)>>
           ELSE <<>>)

InitDocx ==
    /\ pc = "docx"
    /\ doc \in {[text |-> t, original_content |-> o, paragraphs |-> <<>>] :
                  t \in GenTexts, o \in Originals}
    /\ parser = "none"
    /\ file = <<>>
    /\ metadata = <<>>
    /\ components = <<>>
    /\ nets = <<>>
    /\ records = <<>>
    /\ result = None
    /\ error = None
    /\ NoCaller
    /\ calls = <<>>
    /\ served = 0
    /\ file_type = None

\* create_docx_bytes is called and the document is built
create_docx ==
    /\ pc = "docx"
    /\ \E now \in Clock :
         doc' = [doc EXCEPT !.paragraphs =
                     create_docx_bytes(doc.text, doc.original_content, now)]
    /\ pc' = "created"
    /\ UNCHANGED <<parser, file, metadata, components, nets, records, result, error,
                   callerVars, calls, served, file_type>>

NextDocx == create_docx

SpecDocx == InitDocx /\ [][NextDocx]_vars

(***************************************************************************)
(* The server (flask-backend.py): the handlers of /upload (upload_files)   *)
(* and /download (get_file) answering one request after the other, the     *)
(* module-level qa_chain that outlives the requests, and the resolution of *)
(* the paths a client sends (_resolve_local_paths).  The directory the     *)
(* server runs in, the paths clients send and the regular files there are: *)
(***************************************************************************)
\* "/w/p"
PROJECT_ROOT ==
    <<"/", "w", "/", "p">>

\* "a.d356"
ReqInside ==
    <<"a", ".", "d", "3", "5", "6">>

\* "t/../a.d356"
ReqDotDot ==
    <<"t", "/", ".", ".", "/", "a", ".", "d", "3", "5", "6">>

\* "../o/x.ipc"
ReqOutside ==
    <<".", ".", "/", "o", "/", "x", ".", "i", "p", "c">>

\* "../pe/x.ipc"
ReqSibling ==
    <<".", ".", "/", "p", "e", "/", "x", ".", "i", "p", "c">>

\* "/e/s.ipc"
ReqAbsolute ==
    <<"/", "e", "/", "s", ".", "i", "p", "c">>

\* "n.txt"
ReqMissing ==
    <<"n", ".", "t", "x", "t">>

\* "/w/p/a.d356"
FileA ==
    <<"/", "w", "/", "p", "/", "a", ".", "d", "3", "5", "6">>

\* "/w/o/x.ipc"
FileOutside ==
    <<"/", "w", "/", "o", "/", "x", ".", "i", "p", "c">>

\* "/w/pe/x.ipc"
FileSibling ==
    <<"/", "w", "/", "p", "e", "/", "x", ".", "i", "p", "c">>

\* "/e/s.ipc"
FileAbsolute ==
    <<"/", "e", "/", "s", ".", "i", "p", "c">>

RequestPaths ==
    {ReqInside, ReqDotDot, ReqOutside, ReqSibling, ReqAbsolute, ReqMissing}
\* os.path.exists(p) and os.path.isfile(p)
IsFile(p) == p \in {FileA, FileOutside, FileSibling, FileAbsolute}

\* os.path.isabs
IsAbs(p) == p # <<>> /\ p[1] = "/"

\* os.path.join(a, p)
PathJoin(a, p) ==
    IF IsAbs(p) THEN p
    ELSE IF a = <<>> \/ a[Len(a)] = "/" THEN a \o p
    ELSE a \o <<"/">> \o p

\* p.split("/")
RECURSIVE SplitSlash(_)
SplitSlash(p) ==
    LET seps == {i \in 1..Len(p) : p[i] = "/"}
    IN IF seps = {} THEN <<p>>
       ELSE <<SubSeq(p, 1, Min(seps) - 1)>> \o SplitSlash(SubSeq(p, Min(seps) + 1, Len(p)))

\* os.path.normpath, the loop over the components: "" and "." are dropped,
\* ".." removes the component before it, or nothing at the root
RECURSIVE NormComponents(_, _)
NormComponents(comps, kept) ==
    IF comps = <<>> THEN kept
    ELSE LET c == Head(comps)
         IN IF c = <<>> \/ c = <<".">> THEN NormComponents(Tail(comps), kept)
            ELSE IF c = <<".", ".">>
            THEN NormComponents(Tail(comps),
                                IF kept = <<>> THEN kept
                                ELSE SubSeq(kept, 1, Len(kept) - 1))
            ELSE NormComponents(Tail(comps), Append(kept, c))

\* os.path.abspath of an absolute path: os.path.normpath
AbsPath(p) == <<"/">> \o Join(NormComponents(SplitSlash(p), <<>>), <<"/">>)

\* the body of the loop of _resolve_local_paths for one path
Resolve1(p) ==
    LET abs_path == AbsPath(IF IsAbs(p) THEN p ELSE PathJoin(PROJECT_ROOT, p))
    IN IF ~IsAbs(p) /\ ~StartsWith(abs_path, PROJECT_ROOT)
       THEN [raised |-> "ValueError", path |-> <<>>]
       ELSE IF ~IsFile(abs_path)
       THEN [raised |-> "FileNotFoundError", path |-> <<>>]
       ELSE [raised |-> "none", path |-> abs_path]

\* _resolve_local_paths(paths): the resolved paths, or the first exception
RECURSIVE _resolve_local_paths(_)
_resolve_local_paths(ps) ==
    IF ps = <<>> THEN [raised |-> "none", resolved |-> <<>>]
    ELSE LET before == _resolve_local_paths(SubSeq(ps, 1, Len(ps) - 1))
             r == Resolve1(ps[Len(ps)])
         IN IF before.raised # "none" THEN before
            ELSE IF r.raised # "none" THEN [raised |-> r.raised, resolved |-> <<>>]
            ELSE [raised |-> "none", resolved |-> Append(before.resolved, r.path)]

\* MaxRequests bounds the number of requests the server answers.
MaxRequests == 2

\* what the handling of a file adds to snippets: its text, or nothing for a
\* file without text
Yield(p) ==
    IF p \in {FileA, FileSibling} THEN <<TextNotes>> ELSE <<>>
RECURSIVE Extracted(_)
Extracted(ps) == IF ps = <<>> THEN <<>> ELSE Yield(Head(ps)) \o Extracted(Tail(ps))

\* request bodies without a usable "files" list: no JSON, "files" missing,
\* "files" no list, "files" empty
BadBodies == {"no_json", "no_files", "not_a_list", "empty_list"}

\* the "files" lists of the requests and, for each, what
\* _resolve_local_paths gives, the entries of the files and the snippets
Requests == UNION {[1..n -> RequestPaths] : n \in 1..MaxFiles}
Handling(ps) ==
    LET r == _resolve_local_paths(ps)
    IN [paths |-> ps, raised |-> r.raised,
        entries |-> [i \in 1..Len(r.resolved) |->
                        [file |-> BaseName(r.resolved[i]), path |-> r.resolved[i]]],
        texts |-> Extracted(r.resolved)]
Handlings == {Handling(ps) : ps \in Requests}

InitServer ==
    /\ pc = "serving"
    /\ served = 0
    /\ qa_chain = None
    /\ caller = "none"
    /\ paths = <<>>
    /\ snippets = None
    /\ processed = <<>>
    /\ response = None
    /\ error = None
    /\ idx = 0
    /\ extra_docs = <<>>
    /\ doc_idx = 0
    /\ parser = "none"
    /\ file = <<>>
    /\ metadata = <<>>
    /\ components = <<>>
    /\ nets = <<>>
    /\ records = <<>>
    /\ result = None
    /\ calls = <<>>
    /\ doc = <<>>
    /\ file_type = None

serverFrame ==
    <<pc, parser, file, metadata, components, nets, records, result, idx, docVars,
      calls, doc, file_type>>

Serving == pc = "serving" /\ served < MaxRequests

\* POST /upload whose body has no non-empty "files" list: 400
upload_files_bad_request ==
    /\ Serving
    /\ \E b \in BadBodies :
         /\ served' = served + 1
         /\ caller' = "upload_files"
         /\ paths' = <<>>
         /\ snippets' = None
         /\ processed' = <<>>
         /\ response' = Some([code |-> 400, body |-> "error"])
         /\ error' = None
    /\ UNCHANGED <<qa_chain, serverFrame>>

\* POST /upload one of whose paths _resolve_local_paths rejects: 400
upload_files_unresolved ==
    /\ Serving
    /\ \E h \in Handlings :
         /\ h.raised # "none"
         /\ served' = served + 1
         /\ caller' = "upload_files"
         /\ paths' = h.paths
         /\ snippets' = None
         /\ processed' = <<>>
         /\ response' = Some([code |-> 400, body |-> h.raised])
         /\ error' = None
    /\ UNCHANGED <<qa_chain, serverFrame>>

\* POST /upload whose paths resolve: every file is handled and gets its
\* entry; without any snippet the answer is 400 "no_content", with snippets
\* the chain is built and replaces qa_chain, unless a library call raises
upload_files ==
    /\ Serving
    /\ \E h \in Handlings :
         /\ h.raised = "none"
         /\ served' = served + 1
         /\ caller' = "upload_files"
         /\ paths' = h.paths
         /\ snippets' = Some(h.texts)
         /\ processed' = h.entries
         /\ \/ /\ h.texts = <<>>
               /\ response' = Some([code |-> 400, body |-> "no_content"])
               /\ UNCHANGED qa_chain
               /\ error' = None
            \/ /\ h.texts # <<>>
               /\ qa_chain' = Some(h.texts)
               /\ response' = Some([code |-> 200, body |-> "ok"])
               /\ error' = None
            \/ /\ h.texts # <<>>
               /\ error' = Some("Exception")
               /\ response' = None
               /\ UNCHANGED qa_chain
    /\ UNCHANGED serverFrame

\* Variant of get_file: the chain is dropped once it has answered.
get_file_Consuming ==
    /\ Serving
    /\ served' = served + 1
    /\ caller' = "get_file"
    /\ paths' = <<>>
    /\ snippets' = None
    /\ processed' = <<>>
    /\ qa_chain' = None
    /\ IF qa_chain = None
       THEN /\ error' = Some("AttributeError")
            /\ response' = None
       ELSE \/ /\ response' = Some([code |-> 400, body |-> "error"])
               /\ error' = None
            \/ /\ response' = Some([code |-> 200, body |-> "TestProcedure.docx"])
               /\ error' = None
            \/ /\ error' = Some("Exception")
               /\ response' = None
    /\ UNCHANGED serverFrame

\* GET /download: text = qa_chain.run(question); on None the attribute
\* lookup raises; an empty text is answered 400, a text with the document;
\* the chain may raise
get_file ==
    /\ Serving
    /\ served' = served + 1
    /\ caller' = "get_file"
    /\ paths' = <<>>
    /\ snippets' = None
    /\ processed' = <<>>
    /\ IF qa_chain = None
       THEN /\ error' = Some("AttributeError")
            /\ response' = None
       ELSE \/ /\ response' = Some([code |-> 400, body |-> "error"])
               /\ error' = None
            \/ /\ response' = Some([code |-> 200, body |-> "TestProcedure.docx"])
               /\ error' = None
            \/ /\ error' = Some("Exception")
               /\ response' = None
    /\ UNCHANGED <<qa_chain, serverFrame>>

NextServer ==
    \/ upload_files_bad_request
    \/ upload_files_unresolved
    \/ upload_files
    \/ get_file

SpecServer == InitServer /\ [][NextServer]_vars

(***************************************************************************)
(* The command-line tool (cli.py): detect_file_type, and its two callers   *)
(* process_file and extract_file_content.  Extensions, MIME types and      *)
(* paths:                                                                  *)
(***************************************************************************)
\* ".txt"
ExtTxt ==
    <<".", "t", "x", "t">>

\* ".md"
ExtMd ==
    <<".", "m", "d">>

\* ".py"
ExtPy ==
    <<".", "p", "y">>

\* ".js"
ExtJs ==
    <<".", "j", "s">>

\* ".html"
ExtHtml ==
    <<".", "h", "t", "m", "l">>

\* ".css"
ExtCss ==
    <<".", "c", "s", "s">>

\* ".json"
ExtJson ==
    <<".", "j", "s", "o", "n">>

\* ".csv"
ExtCsv ==
    <<".", "c", "s", "v">>

\* ".jpg"
ExtJpg ==
    <<".", "j", "p", "g">>

\* ".jpeg"
ExtJpeg ==
    <<".", "j", "p", "e", "g">>

\* ".png"
ExtPng ==
    <<".", "p", "n", "g">>

\* ".gif"
ExtGif ==
    <<".", "g", "i", "f">>

\* ".bmp"
ExtBmp ==
    <<".", "b", "m", "p">>

\* ".tiff"
ExtTiff ==
    <<".", "t", "i", "f", "f">>

\* ".pdf"
ExtPdf ==
    <<".", "p", "d", "f">>

\* ".xlsx"
ExtXlsx ==
    <<".", "x", "l", "s", "x">>

\* ".xls"
ExtXls ==
    <<".", "x", "l", "s">>

\* "text/plain"
MimeTextPlain ==
    <<"t", "e", "x", "t", "/", "p", "l", "a", "i", "n">>

\* "text/markdown"
MimeTextMarkdown ==
    <<"t", "e", "x", "t", "/", "m", "a", "r", "k", "d", "o", "w", "n">>

\* "text/x-python"
MimeTextXPython ==
    <<"t", "e", "x", "t", "/", "x", "-", "p", "y", "t", "h", "o", "n">>

\* "text/javascript"
MimeTextJavascript ==
    <<"t", "e", "x", "t", "/", "j", "a", "v", "a", "s", "c", "r", "i", "p",
      "t">>

\* "text/html"
MimeTextHtml ==
    <<"t", "e", "x", "t", "/", "h", "t", "m", "l">>

\* "text/css"
MimeTextCss ==
    <<"t", "e", "x", "t", "/", "c", "s", "s">>

\* "application/json"
MimeApplicationJson ==
    <<"a", "p", "p", "l", "i", "c", "a", "t", "i", "o", "n", "/", "j", "s",
      "o", "n">>

\* "text/csv"
MimeTextCsv ==
    <<"t", "e", "x", "t", "/", "c", "s", "v">>

\* "image/jpeg"
MimeImageJpeg ==
    <<"i", "m", "a", "g", "e", "/", "j", "p", "e", "g">>

\* "image/png"
MimeImagePng ==
    <<"i", "m", "a", "g", "e", "/", "p", "n", "g">>

\* "image/gif"
MimeImageGif ==
    <<"i", "m", "a", "g", "e", "/", "g", "i", "f">>

\* "image/bmp"
MimeImageBmp ==
    <<"i", "m", "a", "g", "e", "/", "b", "m", "p">>

\* "image/tiff"
MimeImageTiff ==
    <<"i", "m", "a", "g", "e", "/", "t", "i", "f", "f">>

\* "application/pdf"
MimeApplicationPdf ==
    <<"a", "p", "p", "l", "i", "c", "a", "t", "i", "o", "n", "/", "p", "d",
      "f">>

\* "application/vnd.openxmlformats-officedocument.spreadsheetml.sheet"
MimeXlsx ==
    <<"a", "p", "p", "l", "i", "c", "a", "t", "i", "o", "n", "/", "v", "n",
      "d", ".", "o", "p", "e", "n", "x", "m", "l", "f", "o", "r", "m", "a",
      "t", "s", "-", "o", "f", "f", "i", "c", "e", "d", "o", "c", "u", "m",
      "e", "n", "t", ".", "s", "p", "r", "e", "a", "d", "s", "h", "e", "e",
      "t", "m", "l", ".", "s", "h", "e", "e", "t">>

\* "application/vnd.ms-excel"
MimeXls ==
    <<"a", "p", "p", "l", "i", "c", "a", "t", "i", "o", "n", "/", "v", "n",
      "d", ".", "m", "s", "-", "e", "x", "c", "e", "l">>

\* "application/vnd.openxmlformats-officedocument.wordprocessingml.document"
MimeDocx ==
    <<"a", "p", "p", "l", "i", "c", "a", "t", "i", "o", "n", "/", "v", "n",
      "d", ".", "o", "p", "e", "n", "x", "m", "l", "f", "o", "r", "m", "a",
      "t", "s", "-", "o", "f", "f", "i", "c", "e", "d", "o", "c", "u", "m",
      "e", "n", "t", ".", "w", "o", "r", "d", "p", "r", "o", "c", "e", "s",
      "s", "i", "n", "g", "m", "l", ".", "d", "o", "c", "u", "m", "e", "n",
      "t">>

\* "text/"
PrefixText ==
    <<"t", "e", "x", "t", "/">>

\* "image/"
PrefixImage ==
    <<"i", "m", "a", "g", "e", "/">>

\* mimetypes.guess_type: the MIME types of the standard table for the
\* extensions of this model; an extension outside the table has none
types_map ==
    <<<<ExtTxt, MimeTextPlain>>,
      <<ExtMd, MimeTextMarkdown>>,
      <<ExtPy, MimeTextXPython>>,
      <<ExtJs, MimeTextJavascript>>,
      <<ExtHtml, MimeTextHtml>>,
      <<ExtCss, MimeTextCss>>,
      <<ExtJson, MimeApplicationJson>>,
      <<ExtCsv, MimeTextCsv>>,
      <<ExtJpg, MimeImageJpeg>>,
      <<ExtJpeg, MimeImageJpeg>>,
      <<ExtPng, MimeImagePng>>,
      <<ExtGif, MimeImageGif>>,
      <<ExtBmp, MimeImageBmp>>,
      <<ExtTiff, MimeImageTiff>>,
      <<ExtPdf, MimeApplicationPdf>>,
      <<ExtXlsx, MimeXlsx>>,
      <<ExtXls, MimeXls>>,
      <<ExtDocx, MimeDocx>>>>

\* str.upper
UpperChar(c) ==
    IF \E i \in 1..Len(LowerLetters) : LowerLetters[i] = c
    THEN UpperLetters[CHOOSE i \in 1..Len(LowerLetters) : LowerLetters[i] = c]
    ELSE c
ToUpper(s) == [i \in 1..Len(s) |-> UpperChar(s[i])]

\* the extensions the code names, and that of the graph format
CliExts ==
    {ExtTxt, ExtMd, ExtPy, ExtJs, ExtHtml, ExtCss, ExtJson, ExtCsv, ExtJpg,
     ExtJpeg, ExtPng, ExtGif, ExtBmp, ExtTiff, ExtPdf, ExtXlsx, ExtXls,
     ExtDocx, ExtIpc, ExtD356}

\* the paths given to the command-line tool: a file name with each
\* extension, in lower and in upper case, and a name without extension
CliPaths ==
    {<<"f">> \o e : e \in CliExts} \cup {<<"f">> \o ToUpper(e) : e \in CliExts}
      \cup {PathNoExt}

\* mimetypes.guess_type(file_path)[0]: the table is searched with the
\* extension as written and then with the extension in lower case
guess_type(path) ==
    LET ext == ToLower(SplitExt(BaseName(path)))
        rows == {i \in 1..Len(types_map) : types_map[i][1] = ext}
    IN IF rows = {} THEN None ELSE Some(types_map[Min(rows)][2])

\* Path(file_path).suffix.lower()
Suffix(path) == ToLower(SplitExt(BaseName(path)))

\* detect_file_type: the branches on the MIME type in the order of the code,
\* then the branches on the extension
detect_file_type(path) ==
    LET mime_type == guess_type(path)
        ext == Suffix(path)
        byMime ==
            IF mime_type = None THEN None
            ELSE IF StartsWith(mime_type[1], PrefixText) THEN Some("text")
            ELSE IF mime_type[1] = MimeApplicationJson THEN Some("json")
            ELSE IF mime_type[1] = MimeTextCsv THEN Some("csv")
            ELSE IF StartsWith(mime_type[1], PrefixImage) THEN Some("image")
            ELSE IF mime_type[1] = MimeApplicationPdf THEN Some("pdf")
            ELSE None
    IN IF byMime # None THEN byMime[1]
       ELSE IF ext \in {ExtTxt, ExtMd, ExtPy, ExtJs, ExtHtml, ExtCss} THEN "text"
       ELSE IF ext = ExtJson THEN "json"
       ELSE IF ext = ExtCsv THEN "csv"
       ELSE IF ext \in {ExtJpg, ExtJpeg, ExtPng, ExtGif, ExtBmp, ExtTiff} THEN "image"
       ELSE IF ext = ExtPdf THEN "pdf"
       ELSE IF ext \in {ExtXlsx, ExtXls} THEN "excel"
       ELSE IF ext = ExtDocx THEN "docx"
       ELSE IF ext = ExtIpc THEN "ipc"
       ELSE "unknown"

\* process_file: the processors dictionary and its default
processors ==
    <<[key |-> "text", value |-> "process_text_file"],
      [key |-> "json", value |-> "process_json_file"],
      [key |-> "csv", value |-> "process_csv_file"],
      [key |-> "image", value |-> "process_image_file"],
      [key |-> "pdf", value |-> "process_pdf_file"],
      [key |-> "docx", value |-> "process_docx_file"],
      [key |-> "excel", value |-> "process_excel_file"],
      [key |-> "ipc", value |-> "process_ipc_file"]>>
Processor(type) ==
    IF DictHas(processors, type) THEN DictGet(processors, type) ELSE "unsupported"

\* extract_file_content: how the content of a file of each type is read
Reader(type) ==
    IF type = "text" THEN "f.read"
    ELSE IF type = "json" THEN "json.load"
    ELSE IF type = "csv" THEN "pd.read_csv"
    ELSE IF type = "pdf" THEN "PdfReader"
    ELSE IF type = "docx" THEN "Document"
    ELSE IF type = "excel" THEN "load_workbook"
    ELSE IF type = "ipc" THEN "f.read"
    ELSE "unsupported"

InitCli ==
    /\ pc = "cli"
    /\ paths \in {<<p>> : p \in CliPaths}
    /\ file_type = None
    /\ result = None
    /\ error = None
    /\ parser = "none"
    /\ file = <<>>
    /\ metadata = <<>>
    /\ components = <<>>
    /\ nets = <<>>
    /\ records = <<>>
    /\ snippets = None
    /\ caller = "none"
    /\ idx = 0
    /\ processed = <<>>
    /\ response = None
    /\ qa_chain = None
    /\ extra_docs = <<>>
    /\ doc_idx = 0
    /\ calls = <<>>
    /\ served = 0
    /\ doc = <<>>

cliFrame ==
    <<parser, file, metadata, components, nets, records, error, paths,
      snippets, caller, idx, processed, response, qa_chain, docVars,
      calls, served, doc>>

\* process_file on a path that does not exist: the type and "File not found"
process_file_missing ==
    /\ pc = "cli"
    /\ file_type' = Some(detect_file_type(paths[1]))
    /\ result' = Some([type |-> file_type'[1], via |-> "none",
                       error |-> "File not found"])
    /\ pc' = "processed"
    /\ UNCHANGED cliFrame

\* process_file on an existing path: the processor of the detected type runs
process_file ==
    /\ pc = "cli"
    /\ file_type' = Some(detect_file_type(paths[1]))
    /\ result' = Some([type |-> file_type'[1], via |-> Processor(file_type'[1]),
                       error |-> "none"])
    /\ pc' = "processed"
    /\ UNCHANGED cliFrame

\* extract_file_content on a path that does not exist
extract_file_content_missing ==
    /\ pc = "cli"
    /\ file_type' = Some(detect_file_type(paths[1]))
    /\ result' = Some([type |-> file_type'[1], via |-> "none",
                       error |-> "File not found"])
    /\ pc' = "extracted"
    /\ UNCHANGED cliFrame

\* extract_file_content on an existing path: the content is read the way of
\* the detected type
extract_file_content ==
    /\ pc = "cli"
    /\ file_type' = Some(detect_file_type(paths[1]))
    /\ result' = Some([type |-> file_type'[1], via |-> Reader(file_type'[1]),
                       error |-> "none"])
    /\ pc' = "extracted"
    /\ UNCHANGED cliFrame

NextCli ==
    \/ process_file_missing
    \/ process_file
    \/ extract_file_content_missing
    \/ extract_file_content

SpecCli == InitCli /\ [][NextCli]_vars

(***************************************************************************)
(* C30: detect_file_type returns 'csv' for a path whose guessed MIME type  *)
(* is text/csv, so that process_file runs process_csv_file on it and       *)
(* extract_file_content reads it with pd.read_csv; and each category of    *)
(* the MIME branches (text, json, csv, image, pdf) is returned for some    *)
(* MIME type.  The code tests startswith("text/") before the comparison    *)
(* with "text/csv", so the type of such a path is 'text'.                  *)
(***************************************************************************)
C30_CsvByMime ==
    (file_type # None /\ guess_type(paths[1]) = Some(MimeTextCsv)) =>
        /\ file_type = Some("csv")
        /\ (pc = "processed" /\ result[1].error = "none") =>
               result[1].via = "process_csv_file"
        /\ (pc = "extracted" /\ result[1].error = "none") =>
               result[1].via = "pd.read_csv"

(***************************************************************************)
(* Two parser invocations running side by side (parse_d356 21-93,          *)
(* parse_ipc 96-122).  Each invocation has its own position, its own file  *)
(* and its own local names metadata, components, nets (parse_d356) or nets *)
(* (parse_ipc, here records); the steps of the two invocations interleave  *)
(* in any order.                                                           *)
(***************************************************************************)
Calls == {1, 2}
ConcurrentD356Lines == {LJob, LU1}
ConcurrentIpcLines == {I5V1, IGnd}

EmptyLocals ==
    [metadata |-> <<>>, components |-> <<>>, nets |-> <<>>, records |-> <<>>]

\* Variant of Locals: the dictionaries are module-level names, so that
\* every invocation works on those of the first.
Locals_ModuleLevel(k) == calls[1].locals

\* the local names of invocation k: metadata, components, nets = {}, {}, {}
\* and nets = [] are bound inside the call
Locals(k) == calls[k].locals

InitConcurrent ==
    /\ calls \in [Calls -> {[pc |-> "start", parser |-> p, file |-> <<>>,
                             locals |-> EmptyLocals, result |-> None,
                             error |-> None] : p \in {"d356", "ipc"}}]
    /\ pc = "concurrent"
    /\ parser = "none"
    /\ file = <<>>
    /\ metadata = <<>>
    /\ components = <<>>
    /\ nets = <<>>
    /\ records = <<>>
    /\ result = None
    /\ error = None
    /\ NoCaller
    /\ served = 0
    /\ doc = <<>>
    /\ file_type = None

concurrentFrame ==
    <<pc, parser, file, metadata, components, nets, records, result, error,
      callerVars, served, doc, file_type>>

\* open(file_path, "r") of invocation k succeeds
call_open_ok(k) ==
    /\ calls[k].pc = "start"
    /\ calls' = [calls EXCEPT ![k].pc = "reading"]
    /\ UNCHANGED concurrentFrame

\* open(file_path, "r") of invocation k raises
call_open_fail(k) ==
    /\ calls[k].pc = "start"
    /\ \E e \in OpenErrors :
         calls' = [calls EXCEPT ![k].pc = "raised", ![k].error = Some(e)]
    /\ UNCHANGED concurrentFrame

\* one iteration of "for line in f" in invocation k of parse_d356
call_d356_line(k) ==
    /\ calls[k].parser = "d356"
    /\ calls[k].pc = "reading"
    /\ Len(calls[k].file) < MaxLines
    /\ \E line \in ConcurrentD356Lines :
         LET l == Locals(k)
             m == D356Step([metadata |-> l.metadata, components |-> l.components,
                            nets |-> l.nets], line)
         IN calls' = [calls EXCEPT
                ![k].file = Append(@, line),
                ![k].locals = [metadata |-> m.metadata,
                               components |-> m.components,
                               nets |-> m.nets, records |-> l.records]]
    /\ UNCHANGED concurrentFrame

\* one iteration of "for line in f" in invocation k of parse_ipc
call_ipc_line(k) ==
    /\ calls[k].parser = "ipc"
    /\ calls[k].pc = "reading"
    /\ Len(calls[k].file) < MaxLines
    /\ \E line \in ConcurrentIpcLines :
         LET l == Locals(k)
         IN calls' = [calls EXCEPT
                ![k].file = Append(@, line),
                ![k].locals = [l EXCEPT !.records = IpcStep(l.records, line)]]
    /\ UNCHANGED concurrentFrame

\* end of file in invocation k: the model built in its local names is returned
call_return(k) ==
    /\ calls[k].pc = "reading"
    /\ LET l == Locals(k)
       IN calls' = [calls EXCEPT
              ![k].pc = "done",
              ![k].result =
                  IF calls[k].parser = "d356"
                  THEN Some([metadata |-> l.metadata, components |-> l.components,
                             nets |-> l.nets])
                  ELSE Some(l.records)]
    /\ UNCHANGED concurrentFrame

NextConcurrent ==
    \E k \in Calls :
        \/ call_open_ok(k)
        \/ call_open_fail(k)
        \/ call_d356_line(k)
        \/ call_ipc_line(k)
        \/ call_return(k)

SpecConcurrent == InitConcurrent /\ [][NextConcurrent]_vars

\* what an invocation run alone returns for the lines of its file
Alone(p, f) == IF p = "d356" THEN parse_d356(f) ELSE parse_ipc(f)

(***************************************************************************)
(* C21: two parser invocations whose per-line steps interleave in any      *)
(* order each build, and return, the model the parser builds for the same  *)
(* lines when it runs alone: after any interleaving, what an invocation    *)
(* has built is determined by the lines it has read itself.                *)
(***************************************************************************)
C21_Isolated ==
    \A k \in DOMAIN calls :
        /\ calls[k].pc \in {"reading", "done"} =>
             LET l == calls[k].locals
             IN IF calls[k].parser = "d356"
                THEN /\ [metadata |-> l.metadata, components |-> l.components,
                         nets |-> l.nets] = parse_d356(calls[k].file)
                     /\ l.records = <<>>
                ELSE /\ l.records = parse_ipc(calls[k].file)
                     /\ l.metadata = <<>> /\ l.components = <<>> /\ l.nets = <<>>
        /\ calls[k].pc = "done" =>
             calls[k].result = Some(Alone(calls[k].parser, calls[k].file))
        /\ calls[k].pc \in {"start", "reading", "raised"} => calls[k].result = None

\* both invocations are between their first and last line, and one later
\* returns while the other has not
C21_Witness ==
    /\ DOMAIN calls = Calls
    /\ calls[1].parser = "d356" /\ calls[1].pc = "done"
    /\ calls[1].file = <<LJob, LU1>>
    /\ calls[1].result = Some(parse_d356(<<LJob, LU1>>))
    /\ calls[2].parser = "ipc" /\ calls[2].pc = "reading"
    /\ calls[2].file = <<I5V1>>
    /\ calls[2].locals.records = parse_ipc(<<I5V1>>)

(***************************************************************************)
(* C28: the flatten_netlist of flask-backend.py and the flatten_netlist of *)
(* netlist_parser.py return the same chunks, in the same order, for every  *)
(* model of parse_d356 and every model of parse_ipc, and the test that     *)
(* chooses the branch takes the graph branch exactly for the models of     *)
(* parse_d356 and the flat branch exactly for those of parse_ipc, the      *)
(* empty ones included.                                                    *)
(***************************************************************************)
C28_SameChunks ==
    (pc = "flattened" /\ result # None /\ snippets # None) =>
        LET type == IF parser = "d356" THEN "dict" ELSE "list"
        IN /\ snippets[1] = flatten_netlist(type, result[1])
           /\ snippets[1] = flask_flatten_netlist(type, result[1])
           /\ Branch(type, result[1]) = "graph" <=> parser = "d356"
           /\ Branch(type, result[1]) = "flat" <=> parser = "ipc"
           /\ parser = "d356" =>
                Len(snippets[1]) = MetadataOffset(result[1]) + Len(result[1].components)
                                     + Len(result[1].nets)
           /\ parser = "ipc" =>
                Len(snippets[1]) = Cardinality(FirstSeen(result[1]))

\* a graph model with metadata, and the empty models of both parsers
C28_Witness ==
    /\ Flattened("d356")
    /\ file = <<LJob, LU1, LU2>>
    /\ snippets[1] = flask_flatten_netlist("dict", parse_d356(<<LJob, LU1, LU2>>))
    /\ Len(snippets[1]) = 4
    /\ flask_flatten_netlist("list", parse_ipc(<<>>)) = <<>>
    /\ flask_flatten_netlist("dict", parse_d356(<<>>)) = <<>>
    /\ Branch("dict", parse_d356(<<>>)) = "graph"
    /\ Branch("list", parse_ipc(<<>>)) = "flat"

(***************************************************************************)
(* C23: a Word file none of whose paragraphs has text adds nothing to the  *)
(* snippets (no empty chunk is appended for it) and raises nothing, in     *)
(* build_pipeline and in upload_files: after build_pipeline has read some  *)
(* of its extra_docs the snippets are the chunks of the netlist followed   *)
(* by the texts of the documents read that have text, and upload_files     *)
(* never holds a blank snippet.                                            *)
(***************************************************************************)
C23_TextsOf(docs) ==
    SelectSeq([i \in 1..Len(docs) |-> DocText(docs[i])], LAMBDA t : Strip(t) # <<>>)

C23_BlankDocAddsNothing ==
    /\ (caller = "build_pipeline" /\ pc \in {"flattened", "returned"}) =>
         snippets[1] = flatten_netlist(IF parser = "d356" THEN "dict" ELSE "list",
                                       result[1])
                         \o C23_TextsOf(SubSeq(extra_docs, 1, doc_idx))
    /\ (caller = "upload_files" /\ snippets # None) =>
         \A i \in 1..Len(snippets[1]) : Strip(snippets[1][i]) # <<>>

(***************************************************************************)
(* C27: once upload_files is in its loop, files_processed has exactly one  *)
(* entry for every file handled so far, in the order of the request and    *)
(* under the file's base name; a file whose handling raised is recorded    *)
(* with status error or skipped and adds no snippet, the loop goes on with *)
(* the next file, and the response is built only when every requested      *)
(* file has its entry.                                                     *)
(***************************************************************************)
C27_Step ==
    caller = "upload_files" =>
        /\ Len(processed') = idx'
        /\ \A i \in 1..Len(processed') : processed'[i].file = BaseName(paths'[i])
        /\ idx' # idx =>
             /\ idx' = idx + 1
             /\ SubSeq(processed', 1, idx) = processed
             /\ processed'[idx'].status \in {"ok", "error", "skipped"}
             /\ processed'[idx'].status \in {"error", "skipped"} => snippets' = snippets
             /\ pc' = "upload_loop"
             /\ error' = None
        /\ (response' # None \/ pc' = "raised") => idx' = Len(paths')

C27_OneEntryPerFile == [][C27_Step]_vars

\* the first file could not be read and is recorded, the second was parsed
C27_Witness ==
    /\ caller = "upload_files"
    /\ paths = <<PathDocx, PathD356>>
    /\ Len(processed) = 2
    /\ processed[1].file = PathDocx /\ processed[1].status = "error"
    /\ processed[2].file = PathD356 /\ processed[2].status = "ok"
    /\ response # None
    /\ response[1].code = 200

(***************************************************************************)
(* Vocabulary of the properties of the server.                             *)
(***************************************************************************)
\* the directory root itself or a path below it
InsideRoot(abs_path) ==
    abs_path = PROJECT_ROOT \/ StartsWith(abs_path, PROJECT_ROOT \o <<"/">>)
\* the relative paths of the last request that lead out of the root
EscapingPaths ==
    {i \in 1..Len(paths) :
        ~IsAbs(paths[i]) /\ ~InsideRoot(AbsPath(PathJoin(PROJECT_ROOT, paths[i])))}

(***************************************************************************)
(* C24: every relative path of a request that resolves to a place outside  *)
(* PROJECT_ROOT, a sibling directory whose name begins with the name of    *)
(* the root included, is rejected: the request is answered 400 and no file *)
(* of it is processed.  The code compares the resolved path with the root  *)
(* as text, so '../pe/x.ipc' under the root '/w/p' passes.                 *)
(***************************************************************************)
C24_OutsideRejected ==
    (caller = "upload_files" /\ EscapingPaths # {}) =>
        /\ response # None
        /\ response[1].code = 400
        /\ processed = <<>>
        /\ snippets = None

(***************************************************************************)
(* C25: over any sequence of /upload and /download requests qa_chain is    *)
(* replaced only by an /upload that extracted at least one snippet, and    *)
(* then by the chain over these snippets; an /upload answered 400 and      *)
(* every /download leave it as it was.                                     *)
(***************************************************************************)
C25_Step ==
    /\ qa_chain' # qa_chain =>
         /\ caller' = "upload_files"
         /\ served' = served + 1
         /\ response' = Some([code |-> 200, body |-> "ok"])
         /\ snippets' # None
         /\ snippets'[1] # <<>>
         /\ qa_chain' = Some(snippets'[1])
    /\ (served' # served /\ caller' = "get_file") => qa_chain' = qa_chain
    /\ (served' # served /\ response' # None /\ response'[1].code = 400) =>
         qa_chain' = qa_chain

C25_OnlyUploadReplaces == [][C25_Step]_vars

\* a chain built by the first request is still there after a /download
C25_Witness ==
    /\ served = 2
    /\ caller = "get_file"
    /\ response = Some([code |-> 200, body |-> "TestProcedure.docx"])
    /\ qa_chain = Some(<<TextNotes>>)

(***************************************************************************)
(* C26: a /download handled while qa_chain is still None is answered with  *)
(* an error response, no exception leaves the handler.                     *)
(***************************************************************************)
C26_DownloadAnswered ==
    (caller = "get_file" /\ qa_chain = None) =>
        /\ error = None
        /\ response # None
        /\ response[1].code >= 400

(***************************************************************************)
(* Vocabulary of the properties of the generated document.                 *)
(***************************************************************************)
C22_Texts(ps) == [i \in 1..Len(ps) |-> ps[i].text]
C22_Nth(S, k) == CHOOSE x \in S : Cardinality({y \in S : y <= x}) = k
\* the pieces of s between the positions of B, in order, trimmed, the blank
\* ones left out
C22_Pieces(s, B) ==
    LET starts == {i \in 1..Len(s) : i \notin B /\ (i = 1 \/ i - 1 \in B)}
        EndOf(i) == Max({j \in i..Len(s) : \A k \in i..j : k \notin B})
        all == [k \in 1..Cardinality(starts) |->
                   StripWs(SubSeq(s, C22_Nth(starts, k), EndOf(C22_Nth(starts, k))))]
    IN SelectSeq(all, LAMBDA t : t # <<>>)
\* the text with every "\r\n" and every remaining "\r" read as one "\n"
C22_Unix(s) ==
    LET keep == {i \in 1..Len(s) : ~(s[i] = "\r" /\ i < Len(s) /\ s[i + 1] = "\n")}
    IN [k \in 1..Cardinality(keep) |->
           IF s[C22_Nth(keep, k)] = "\r" THEN "\n" ELSE s[C22_Nth(keep, k)]]
\* the paragraphs of a text: its pieces between runs of two or more "\n"
C22_Blocks(s) ==
    C22_Pieces(s, {i \in 1..Len(s) :
                      /\ s[i] = "\n"
                      /\ \/ (i > 1 /\ s[i - 1] = "\n")
                         \/ (i < Len(s) /\ s[i + 1] = "\n")})
\* the lines of a text
C22_Lines(s) == C22_Pieces(s, {i \in 1..Len(s) : s[i] = "\n"})
C22_Contains(s, t) == \E i \in 1..(Len(s) - Len(t) + 1) : SubSeq(s, i, i + Len(t) - 1) = t
C22_Sources ==
    (IF doc.original_content = None THEN <<>>
     ELSE C22_Lines(C22_Unix(doc.original_content[1])))
      \o C22_Blocks(C22_Unix(doc.text))

(***************************************************************************)
(* C22 as stated: the paragraphs of the generated document are the title   *)
(* paragraph, whose text contains 'AI-Generated', followed by the          *)
(* paragraphs of the sources in input order and by nothing else.           *)
(***************************************************************************)
C22_TitleThenSources ==
    pc = "created" =>
        /\ C22_Contains(doc.paragraphs[1].text, TxtMarker)
        /\ C22_Texts(doc.paragraphs) = <<doc.paragraphs[1].text>> \o C22_Sources

(***************************************************************************)
(* C22 amended: the document of create_docx_bytes begins with the title    *)
(* paragraph 'AI-Generated Document'; when an original content is given    *)
(* there follow the heading 'Original Input Content', an introduction, a   *)
(* rule, the non-blank lines of the original content, trimmed and in their *)
(* order, a rule and an empty paragraph; then the heading 'AI Analysis &   *)
(* Processing Results' and the blocks of the text between blank lines,     *)
(* trimmed, in their order, none reordered, left out as a duplicate or     *)
(* joined with another; then the heading 'Document Information' and three  *)
(* paragraphs (five with an original content) on the time, the length and  *)
(* the number of words.                                                    *)
(***************************************************************************)
C22_Sections ==
    pc = "created" =>
        LET ps == doc.paragraphs
            given == doc.original_content # None /\ doc.original_content[1] # <<>>
            lines == IF given THEN C22_Lines(C22_Unix(doc.original_content[1])) ELSE <<>>
            blocks == C22_Blocks(C22_Unix(doc.text))
            o == IF given THEN 5 + Len(lines) ELSE 0
            n == 1 + o + 1 + Len(blocks) + 1 + (IF given THEN 5 ELSE 3)
        IN /\ Len(ps) = n
           /\ ps[1] = [style |-> "Title", text |-> TxtTitle]
           /\ C22_Contains(ps[1].text, TxtMarker)
           /\ given =>
                /\ ps[2] = [style |-> "Heading", text |-> TxtOriginalHead]
                /\ ps[3].text = TxtOriginalIntro
                /\ Len(ps[4].text) = RuleWidth
                /\ \A k \in 1..Len(lines) :
                     ps[4 + k] = [style |-> "Normal", text |-> lines[k]]
                /\ ps[5 + Len(lines)].text = ps[4].text
                /\ ps[6 + Len(lines)].text = <<>>
           /\ ps[2 + o] = [style |-> "Heading", text |-> TxtResultsHead]
           /\ \A k \in 1..Len(blocks) :
                ps[2 + o + k] = [style |-> "Normal", text |-> blocks[k]]
           /\ ps[3 + o + Len(blocks)] = [style |-> "Heading", text |-> TxtInfoHead]
           /\ StartsWith(ps[4 + o + Len(blocks)].text, TxtGeneratedOn)
           /\ StartsWith(ps[5 + o + Len(blocks)].text, TxtContentLength)
           /\ StartsWith(ps[6 + o + Len(blocks)].text, TxtWordCount)
           /\ \A k \in 1..n : ps[k].style = "Normal" \/ k \in {1, 2 + o, 3 + o + Len(blocks)}
                                \/ (given /\ k = 2)

\* a text of two equal blocks and an original content of three lines
C22_Witness ==
    /\ pc = "created"
    /\ doc.text = GenTwice
    /\ doc.original_content = Some(OrigRepeat)
    /\ Len(doc.paragraphs) = 18
    /\ doc.paragraphs[5].text = <<"Y">>
    /\ doc.paragraphs[6].text = <<"X">>
    /\ doc.paragraphs[7].text = <<"X">>
    /\ doc.paragraphs[11].text = <<"A">>
    /\ doc.paragraphs[12].text = <<"A">>
====
